---- MODULE Spec2Model ----
(***************************************************************************)
(* Model of the unified-deploy-config resolution engine                    *)
(* (lib/merge-config.ts and lib/utils.ts).                                 *)
(*                                                                         *)
(* JSON values are tagged records; a mapping keeps its entries as a        *)
(* sequence of <<key, value>> pairs in insertion order, which is the order *)
(* Object.keys / Object.entries report for the (non integer-like) keys     *)
(* used here.  Strings are TLA+ strings; characters are read with SubSeq.  *)
(***************************************************************************)
EXTENDS Integers, Sequences, FiniteSets, TLC

VARIABLES pc, config, args, result, assembled

vars == <<pc, config, args, result, assembled>>

(***************************************************************************)
(* JSON values                                                             *)
(***************************************************************************)
Undef == [t |-> "undef"]
Null == [t |-> "null"]
Str(s) == [t |-> "str", v |-> s]
Bool(b) == [t |-> "bool", v |-> b]
Arr(items) == [t |-> "arr", v |-> items]
Map(entries) == [t |-> "map", v |-> entries]
EmptyMap == Map(<<>>)

\* a function object: what a lookup of an inherited member name yields
Fn(name) == [t |-> "fn", v |-> name]

\* names every object literal inherits from Object.prototype as functions
InheritedFunctions == {"constructor", "toString", "valueOf", "hasOwnProperty"}

\* value && typeof value === 'object' && !Array.isArray(value)
IsPlainObject(x) == x.t = "map"

\* typeof value === 'object' && value !== null   (arrays included)
IsObjectLike(x) == x.t \in {"map", "arr"}

\* JavaScript truthiness of a JSON value
Truthy(x) ==
    CASE x.t = "undef" -> FALSE
      [] x.t = "null" -> FALSE
      [] x.t = "str" -> x.v # ""
      [] x.t = "bool" -> x.v
      [] OTHER -> TRUE

\* a ?? b
Coalesce(a, b) == IF a.t \in {"undef", "null"} THEN b ELSE a

IndexKeys == <<"0", "1", "2", "3">>

\* Object.entries(x): a mapping's own entries, an array's index entries
ObjectEntries(x) ==
    CASE x.t = "map" -> x.v
      [] x.t = "arr" -> [i \in 1..Len(x.v) |-> <<IndexKeys[i], x.v[i]>>]
      [] OTHER -> <<>>

\* Object.keys(x)
ObjectKeys(x) == [i \in 1..Len(ObjectEntries(x)) |-> ObjectEntries(x)[i][1]]

KeySet(x) == {ObjectEntries(x)[i][1] : i \in 1..Len(ObjectEntries(x))}

HasKey(x, k) == k \in KeySet(x)

\* x[k]: the own entry; for a mapping without such an entry, the inherited
\* function when k names one; undefined otherwise
Get(x, k) ==
    IF HasKey(x, k)
    THEN LET i == CHOOSE j \in 1..Len(ObjectEntries(x)) : ObjectEntries(x)[j][1] = k
         IN  ObjectEntries(x)[i][2]
    ELSE IF x.t = "map" /\ k \in InheritedFunctions THEN Fn(k)
    ELSE Undef

\* x?.[k]
OptGet(x, k) == IF x.t \in {"undef", "null"} THEN Undef ELSE Get(x, k)

\* an integer-like key, and the integer it stands for
IsIndexKey(k) == \E i \in 1..Len(IndexKeys) : IndexKeys[i] = k
IndexOf(k) == CHOOSE i \in 1..Len(IndexKeys) : IndexKeys[i] = k

\* m[k] = val on a mapping: an existing key keeps its position, a new
\* integer-like key goes among the integer-like keys, which come first in
\* ascending order, and any other new key is appended
Assign(m, k, val) ==
    IF HasKey(m, k)
    THEN Map([i \in 1..Len(m.v) |-> IF m.v[i][1] = k THEN <<k, val>> ELSE m.v[i]])
    ELSE IF IsIndexKey(k)
    THEN LET before == SelectSeq(m.v, LAMBDA e : IsIndexKey(e[1]) /\ IndexOf(e[1]) < IndexOf(k))
         IN  Map(before \o <<<<k, val>>>> \o SubSeq(m.v, Len(before) + 1, Len(m.v)))
    ELSE Map(Append(m.v, <<k, val>>))

RECURSIVE AssignAll(_, _)
\* {...m, ...Object.fromEntries(entries)}
AssignAll(m, entries) ==
    IF entries = <<>> THEN m
    ELSE AssignAll(Assign(m, Head(entries)[1], Head(entries)[2]), Tail(entries))

\* Object.fromEntries(entries)
FromEntries(entries) == AssignAll(EmptyMap, entries)

\* (mutation) { ...b, ...a }: the first operand wins a collision
Spread_FirstWins(a, b) == AssignAll(AssignAll(EmptyMap, ObjectEntries(b)), ObjectEntries(a))

\* { ...a, ...b }
Spread(a, b) == AssignAll(AssignAll(EmptyMap, ObjectEntries(a)), ObjectEntries(b))

(***************************************************************************)
(* lib/utils.ts                                                            *)
(***************************************************************************)
RECURSIVE deepMerge(_)
RECURSIVE MergeEntries(_, _)

\* (mutation) a shallow merge: the incoming value always replaces
MergeKey_Shallow(res, key, objValue) == Assign(res, key, objValue)

\* one iteration of the inner loop of deepMerge
MergeKey(res, key, objValue) ==
    LET resultValue == Get(res, key)
    IN  IF IsPlainObject(objValue) /\ IsPlainObject(resultValue)
        THEN Assign(res, key, deepMerge(<<resultValue, objValue>>))
        ELSE Assign(res, key, objValue)

RECURSIVE MergeEntries_LastKeyFirst(_, _)
\* (mutation) the keys of an argument are visited from the last to the first
MergeEntries_LastKeyFirst(res, entries) ==
    IF entries = <<>> THEN res
    ELSE MergeEntries_LastKeyFirst(
             MergeKey(res, entries[Len(entries)][1], entries[Len(entries)][2]),
             SubSeq(entries, 1, Len(entries) - 1))

\* the inner loop of deepMerge
MergeEntries(res, entries) ==
    IF entries = <<>> THEN res
    ELSE MergeEntries(MergeKey(res, Head(entries)[1], Head(entries)[2]), Tail(entries))

RECURSIVE MergeObjects(_, _)
MergeObjects(res, objects) ==
    IF objects = <<>> THEN res
    ELSE LET obj == Head(objects)
         IN  IF ~IsObjectLike(obj)
             THEN MergeObjects(res, Tail(objects))
             ELSE MergeObjects(MergeEntries(res, ObjectEntries(obj)), Tail(objects))

\* deepMerge(...objects)
deepMerge(objects) == MergeObjects(EmptyMap, objects)

NoPath == [found |-> FALSE, path |-> ""]
Found(p) == [found |-> TRUE, path |-> p]

\* path ? `${path}.${key}` : key
JoinPath(path, key) == IF path # "" THEN path \o "." \o key ELSE key

RECURSIVE findNullValue(_, _)
RECURSIVE FindNullIn(_, _)
FindNullIn(entries, path) ==
    IF entries = <<>> THEN NoPath
    ELSE LET key == Head(entries)[1]
             value == Head(entries)[2]
             currentPath == JoinPath(path, key)
         IN  IF value.t = "null" THEN Found(currentPath)
             ELSE IF IsPlainObject(value)
                  THEN LET nullPath == findNullValue(value, currentPath)
                       IN  \* if (nullPath) return nullPath: '' is falsy
                           IF nullPath.found /\ nullPath.path # ""
                           THEN nullPath
                           ELSE FindNullIn(Tail(entries), path)
                  ELSE FindNullIn(Tail(entries), path)

\* findNullValue(obj, path)
findNullValue(obj, path) == FindNullIn(ObjectEntries(obj), path)

(***************************************************************************)
(* lib/merge-config.ts: helpers                                            *)
(***************************************************************************)
\* (mutation) only the flag _regionAgnostic counts as a metadata key
IsMetadataKey_OnlyFlag(key) == key = "_regionAgnostic"

\* key.startsWith('_')
IsMetadataKey(key) == Len(key) >= 1 /\ SubSeq(key, 1, 1) = "_"

RECURSIVE stripMetadataKeys(_)
RECURSIVE StripEntries(_, _)
StripEntries(res, entries) ==
    IF entries = <<>> THEN res
    ELSE LET key == Head(entries)[1]
             value == Head(entries)[2]
         IN  IF IsMetadataKey(key) THEN StripEntries(res, Tail(entries))
             ELSE IF IsPlainObject(value)
                  THEN StripEntries(Assign(res, key, stripMetadataKeys(value)), Tail(entries))
                  ELSE StripEntries(Assign(res, key, value), Tail(entries))

\* stripMetadataKeys(obj)
stripMetadataKeys(obj) == StripEntries(EmptyMap, ObjectEntries(obj))

RECURSIVE validateNoNullValues(_, _)
RECURSIVE ValidateEntries(_, _)
ValidateEntries(entries, path) ==
    IF entries = <<>> THEN NoPath
    ELSE LET key == Head(entries)[1]
             value == Head(entries)[2]
             currentPath == JoinPath(path, key)
         IN  IF value.t = "null" THEN Found(currentPath)
             ELSE IF IsPlainObject(value)
                  THEN LET inner == validateNoNullValues(value, currentPath)
                       IN  IF inner.found THEN inner
                           ELSE ValidateEntries(Tail(entries), path)
                  ELSE ValidateEntries(Tail(entries), path)

\* validateNoNullValues(obj, path): Found(p) stands for the throw that
\* names p, NoPath for a normal return
validateNoNullValues(obj, path) == ValidateEntries(ObjectEntries(obj), path)

\* (mutation) only the top level is searched for a null
hasNullValues_TopLevelOnly(obj) ==
    \E i \in 1..Len(ObjectEntries(obj)) : ObjectEntries(obj)[i][2].t = "null"

RECURSIVE hasNullValues(_)
\* hasNullValues(obj)
hasNullValues(obj) ==
    \E i \in 1..Len(ObjectEntries(obj)) :
        LET value == ObjectEntries(obj)[i][2]
        IN  \/ value.t = "null"
            \/ IsPlainObject(value) /\ hasNullValues(value)

RECURSIVE flatten(_, _, _)
RECURSIVE FlattenEntries(_, _, _, _)
FlattenEntries(res, entries, prefix, delimiter) ==
    IF entries = <<>> THEN res
    ELSE LET k == Head(entries)[1]
             v == Head(entries)[2]
             key == IF prefix # "" THEN prefix \o delimiter \o k ELSE k
         IN  IF IsPlainObject(v)
             THEN FlattenEntries(AssignAll(res, ObjectEntries(flatten(v, key, delimiter))),
                                 Tail(entries), prefix, delimiter)
             ELSE FlattenEntries(Assign(res, key, v), Tail(entries), prefix, delimiter)

\* flatten(obj, prefix, delimiter)
flatten(obj, prefix, delimiter) ==
    FlattenEntries(EmptyMap, ObjectEntries(obj), prefix, delimiter)

(***************************************************************************)
(* Strings                                                                 *)
(***************************************************************************)
CharAt(s, i) == SubSeq(s, i, i)

\* s.substring(n)
Substring(s, n) == SubSeq(s, n + 1, Len(s))

\* s.endsWith(suffix) / s.startsWith(p)
EndsWith(s, suffix) ==
    Len(suffix) <= Len(s) /\ SubSeq(s, Len(s) - Len(suffix) + 1, Len(s)) = suffix
StartsWith(s, p) == Len(p) <= Len(s) /\ SubSeq(s, 1, Len(p)) = p

WhiteSpace == {" "}

RECURSIVE TrimStart(_)
TrimStart(s) ==
    IF Len(s) > 0 /\ CharAt(s, 1) \in WhiteSpace THEN TrimStart(Substring(s, 1)) ELSE s
RECURSIVE TrimEnd(_)
TrimEnd(s) ==
    IF Len(s) > 0 /\ CharAt(s, Len(s)) \in WhiteSpace
    THEN TrimEnd(SubSeq(s, 1, Len(s) - 1)) ELSE s
\* s.trim()
Trim(s) == TrimEnd(TrimStart(s))

\* the characters of the class [.*+?^${}()|[\]\\]
RegexMeta == {".", "*", "+", "?", "^", "$", "{", "}", "(", ")", "|", "[", "]", "\\"}

\* the characters of the class [a-z0-9_-]
NameChars ==
    {"a", "b", "c", "d", "e", "f", "g", "h", "i", "j", "k", "l", "m", "n", "o", "p",
     "q", "r", "s", "t", "u", "v", "w", "x", "y", "z", "0", "1", "2", "3", "4", "5",
     "6", "7", "8", "9", "_", "-"}

\* (mutation) the prefix is put into the pattern without escaping
EscapeRegex_None(s) == s

RECURSIVE EscapeRegex(_)
\* prefix.replace(/[.*+?^${}()|[\]\\]/g, '\\$&')
EscapeRegex(s) ==
    IF s = "" THEN ""
    ELSE (IF CharAt(s, 1) \in RegexMeta THEN "\\" \o CharAt(s, 1) ELSE CharAt(s, 1))
         \o EscapeRegex(Substring(s, 1))

RECURSIVE MatchAtoms(_, _)
\* Matches the atoms of `pattern` (an escaped character is itself, an
\* unescaped '.' is any character, any other character is itself) at the
\* start of s; the result is the unmatched rest of s, or fails.
MatchAtoms(pattern, s) ==
    IF pattern = "" THEN [ok |-> TRUE, rest |-> s]
    ELSE IF CharAt(pattern, 1) = "\\" /\ Len(pattern) >= 2
         THEN IF Len(s) >= 1 /\ CharAt(s, 1) = CharAt(pattern, 2)
              THEN MatchAtoms(Substring(pattern, 2), Substring(s, 1))
              ELSE [ok |-> FALSE, rest |-> ""]
         ELSE IF Len(s) >= 1 /\ (CharAt(pattern, 1) = "." \/ CharAt(s, 1) = CharAt(pattern, 1))
              THEN MatchAtoms(Substring(pattern, 1), Substring(s, 1))
              ELSE [ok |-> FALSE, rest |-> ""]

\* new RegExp(`^${escaped}[a-z0-9_-]+$`).test(branchName)
EphemeralPatternTest(escaped, branchName) ==
    LET m == MatchAtoms(escaped, branchName)
    IN  /\ m.ok
        /\ Len(m.rest) >= 1
        /\ \A i \in 1..Len(m.rest) : CharAt(m.rest, i) \in NameChars

(***************************************************************************)
(* lib/merge-config.ts: determineEnvironment                               *)
(***************************************************************************)
Fail(kind, msg) == [ok |-> FALSE, kind |-> kind, msg |-> msg]

EnvNotFoundMsg(env) == "Environment '" \o env \o "' not found in config file"

MismatchMsg(env, branchName) ==
    "Ephemeral environment name '" \o env \o "' does not match the branch name '"
    \o branchName \o "'"

BadBranchMsg(prefix, branchName) ==
    "Ephemeral environment branches must follow the format '" \o prefix
    \o "<name>' where <name> contains only lowercase letters, numbers, hyphens, and underscores. Current branch: "
    \o branchName

EnvResult(envName, envConfigName, isEphemeral) ==
    [ok |-> TRUE, envName |-> envName, envConfigName |-> envConfigName,
     isEphemeral |-> isEphemeral]

\* envSource && envSource[env]
EnvDeclared(envSource, env) == Truthy(envSource) /\ Truthy(Get(envSource, env))

\* (mutation) the direct match also serves the request 'ephemeral'
IsDirectMatch_AnyDeclared(envSource, env) == EnvDeclared(envSource, env)

\* (mutation) a declared 'ephemeral' environment suppresses the direct match
IsDirectMatch_UnlessEphemeral(envSource, env) ==
    env # "ephemeral" /\ EnvDeclared(envSource, env) /\ ~EnvDeclared(envSource, "ephemeral")

\* env !== 'ephemeral' && envSource && envSource[env]
IsDirectMatch(envSource, env) == env # "ephemeral" /\ EnvDeclared(envSource, env)

\* (mutation) a trusted request is given the name 'ephemeral'
TrustedResult_Renamed(env) == EnvResult("ephemeral", "ephemeral", TRUE)

\* disableEphemeralBranchCheck: envName remains the input env
TrustedResult(env) == EnvResult(env, "ephemeral", TRUE)

\* (mutation) the full branch name is not accepted as the environment name
IsNameMismatch_NoFullBranch(env, branchEnvName, branchName) ==
    env # "ephemeral" /\ env # branchEnvName

\* env !== 'ephemeral' && env !== branchEnvName && env !== branchName
IsNameMismatch(env, branchEnvName, branchName) ==
    env # "ephemeral" /\ env # branchEnvName /\ env # branchName

\* determineEnvironment(); an absent prefix or branch name is the empty
\* string (both are only ever tested for truthiness before use)
determineEnvironment(envSource, env, ephemeralBranchPrefix, disableEphemeralBranchCheck, branchName) ==
    IF IsDirectMatch(envSource, env)
    THEN EnvResult(env, env, FALSE)
    ELSE
    LET declaredEphemeral == env = "ephemeral" /\ EnvDeclared(envSource, env)
    IN  IF ephemeralBranchPrefix = "" \/ Trim(ephemeralBranchPrefix) = ""
        THEN IF ~declaredEphemeral
             THEN Fail("EnvironmentNotFound", EnvNotFoundMsg(env))
             ELSE EnvResult(env, "ephemeral", TRUE)
        ELSE IF disableEphemeralBranchCheck
        THEN TrustedResult(env)
        ELSE IF branchName # ""
        THEN IF EphemeralPatternTest(EscapeRegex(ephemeralBranchPrefix), branchName)
             THEN LET branchEnvName == Substring(branchName, Len(ephemeralBranchPrefix))
                  IN  IF IsNameMismatch(env, branchEnvName, branchName)
                      THEN Fail("EphemeralNameMismatch", MismatchMsg(env, branchName))
                      ELSE EnvResult(branchEnvName, "ephemeral", TRUE)
             ELSE Fail("InvalidEphemeralBranchFormat",
                       BadBranchMsg(ephemeralBranchPrefix, branchName))
        ELSE IF env = "ephemeral"
        THEN EnvResult("ephemeral", "ephemeral", TRUE)
        ELSE IF declaredEphemeral
        THEN EnvResult(env, "ephemeral", TRUE)
        ELSE Fail("EnvironmentNotFound", EnvNotFoundMsg(env))

(***************************************************************************)
(* lib/merge-config.ts: region codec                                       *)
(***************************************************************************)
\* AwsRegionMapping, in declaration order: <<short code, full name>>
AwsRegionMapping ==
    << <<"use1", "us-east-1">>, <<"use2", "us-east-2">>, <<"usw1", "us-west-1">>,
       <<"usw2", "us-west-2">>, <<"cac1", "ca-central-1">>, <<"euw1", "eu-west-1">>,
       <<"euw2", "eu-west-2">>, <<"euw3", "eu-west-3">>, <<"euc1", "eu-central-1">>,
       <<"eun1", "eu-north-1">>, <<"aps1", "ap-south-1">>, <<"apne1", "ap-northeast-1">>,
       <<"apne2", "ap-northeast-2">>, <<"apne3", "ap-northeast-3">>,
       <<"apse1", "ap-southeast-1">>, <<"apse2", "ap-southeast-2">>,
       <<"apse3", "ap-southeast-3">>, <<"ape1", "ap-east-1">>, <<"sae1", "sa-east-1">> >>

RegionIdx == 1..Len(AwsRegionMapping)
ShortCodes == {AwsRegionMapping[i][1] : i \in RegionIdx}
FullNames == {AwsRegionMapping[i][2] : i \in RegionIdx}

\* AwsRegionMapping[code]
RegionLookup(code) ==
    AwsRegionMapping[CHOOSE i \in RegionIdx : AwsRegionMapping[i][1] = code][2]

\* AwsRegionMapping[region] for an arbitrary string: the mapped full name,
\* an inherited function, or undefined
RegionMember(region) ==
    IF region \in ShortCodes THEN Str(RegionLookup(region))
    ELSE IF region \in InheritedFunctions THEN Fn(region)
    ELSE Undef

\* String(f) of an inherited function, as used when f serves as a key
FunctionText(name) ==
    "function " \o (IF name = "constructor" THEN "Object" ELSE name)
    \o "() { [native code] }"

\* region ? (AwsRegionMapping[region] ?? region) : region, as a value
FullRegionValue(region) ==
    IF region = "" THEN Str(region) ELSE Coalesce(RegionMember(region), Str(region))

\* the same, as the property key it is used as
FullRegionOf(region) ==
    IF FullRegionValue(region).t = "fn" THEN FunctionText(region)
    ELSE FullRegionValue(region).v

\* region ? (Object.keys(AwsRegionMapping).find(key =>
\*             AwsRegionMapping[key] === fullRegion) ?? region) : region
ShortRegionOf(region) ==
    IF region = "" THEN region
    ELSE LET fullRegion == FullRegionOf(region)
             hits == {i \in RegionIdx : AwsRegionMapping[i][2] = fullRegion}
         IN  IF hits = {} THEN region
             ELSE AwsRegionMapping[CHOOSE i \in hits : \A j \in hits : i <= j][1]

\* region && !AwsRegionMapping[region] &&
\*   !Object.values(AwsRegionMapping).includes(region)
IsInvalidRegion(region) ==
    region # "" /\ ~Truthy(RegionMember(region)) /\ region \notin FullNames

\* (mutation) the hyphen before the region stays in the environment name
SliceEnv_KeepHyphen(target, suffix) == SubSeq(target, 1, Len(target) - Len(suffix) + 1)

\* target.slice(0, -suffix.length)
SliceEnv(target, suffix) == SubSeq(target, 1, Len(target) - Len(suffix))

\* the first table entry, in declaration order, whose column col (1 short
\* code, 2 full name) is a '-' suffix of target; 0 when there is none
FirstSuffixMatch(target, col) ==
    LET hits == {i \in RegionIdx : EndsWith(target, "-" \o AwsRegionMapping[i][col])}
    IN  IF hits = {} THEN 0 ELSE CHOOSE i \in hits : \A j \in hits : i <= j

\* parseTarget(target)
parseTarget(target) ==
    LET byFull == FirstSuffixMatch(target, 2)
        byCode == FirstSuffixMatch(target, 1)
    IN  IF byFull # 0
        THEN [env |-> SliceEnv(target, "-" \o AwsRegionMapping[byFull][2]),
              region |-> Str(AwsRegionMapping[byFull][2])]
        ELSE IF byCode # 0
        THEN [env |-> SliceEnv(target, "-" \o AwsRegionMapping[byCode][1]),
              region |-> Str(AwsRegionMapping[byCode][2])]
        ELSE [env |-> target, region |-> Undef]

RECURSIVE JoinWith(_, _)
\* keys.join(sep)
JoinWith(keys, sep) ==
    IF keys = <<>> THEN ""
    ELSE IF Len(keys) = 1 THEN keys[1]
    ELSE keys[1] \o sep \o JoinWith(Tail(keys), sep)

(***************************************************************************)
(* lib/merge-config.ts: mergeConfig                                        *)
(***************************************************************************)
\* envSource[envConfigName]
EnvConfigOf(cfg, envConfigName) == OptGet(cfg.environments, envConfigName)

\* envSource[envConfigName]?.regions
EnvRegionsOf(cfg, envConfigName) == OptGet(EnvConfigOf(cfg, envConfigName), "regions")

\* (mutation) a region the environment does not declare reads the first
\* declared region
RegionConfigOf_FirstDeclared(cfg, envConfigName, fullRegion) ==
    LET regions == EnvRegionsOf(cfg, envConfigName)
    IN  IF Truthy(regions) /\ Len(ObjectKeys(regions)) > 0 /\ ~HasKey(regions, fullRegion)
        THEN Get(regions, ObjectKeys(regions)[1])
        ELSE OptGet(regions, fullRegion)

\* envSource?.[envConfigName]?.regions?.[fullRegion]
RegionConfigOf(cfg, envConfigName, fullRegion) ==
    OptGet(EnvRegionsOf(cfg, envConfigName), fullRegion)

\* envRegions && Object.keys(envRegions).length > 0
EnvHasRegions(cfg, envConfigName) ==
    LET envRegions == EnvRegionsOf(cfg, envConfigName)
    IN  Truthy(envRegions) /\ Len(ObjectKeys(envRegions)) > 0

\* isComponentRegionAgnostic(componentName)
isComponentRegionAgnostic(cfg, envConfigName, componentName) ==
    LET defaultComp == OptGet(cfg.defaults, componentName)
        envComp == OptGet(EnvConfigOf(cfg, envConfigName), componentName)
        merged == deepMerge(<<Coalesce(defaultComp, EmptyMap), Coalesce(envComp, EmptyMap)>>)
    IN  Get(merged, "_regionAgnostic") = Bool(TRUE)

\* (mutation) the region level is merged before the environment level
ComponentLevels_RegionBeforeEnv(cfg, envConfigName, fullRegion, componentName) ==
    LET defaultComp == Coalesce(OptGet(cfg.defaults, componentName), EmptyMap)
        envComp == Coalesce(OptGet(EnvConfigOf(cfg, envConfigName), componentName), EmptyMap)
        regionComp == IF fullRegion # ""
                      THEN Coalesce(OptGet(RegionConfigOf(cfg, envConfigName, fullRegion),
                                           componentName), EmptyMap)
                      ELSE EmptyMap
    IN  <<defaultComp, regionComp, envComp>>

\* the three arguments getMergedComponentConfig hands to deepMerge
ComponentLevels(cfg, envConfigName, fullRegion, componentName) ==
    LET defaultComp == Coalesce(OptGet(cfg.defaults, componentName), EmptyMap)
        envComp == Coalesce(OptGet(EnvConfigOf(cfg, envConfigName), componentName), EmptyMap)
        regionComp == IF fullRegion # ""
                      THEN Coalesce(OptGet(RegionConfigOf(cfg, envConfigName, fullRegion),
                                           componentName), EmptyMap)
                      ELSE EmptyMap
    IN  <<defaultComp, envComp, regionComp>>

\* getMergedComponentConfig(componentName)
getMergedComponentConfig(cfg, envConfigName, fullRegion, componentName) ==
    stripMetadataKeys(deepMerge(ComponentLevels(cfg, envConfigName, fullRegion, componentName)))

\* isComponent(configObj, key)
isComponent(configObj, key) == IsPlainObject(Get(configObj, key))

RECURSIVE AddUnique(_, _)
\* keys.add(k) for each k of ks, on a Set kept in insertion order
AddUnique(keys, ks) ==
    IF ks = <<>> THEN keys
    ELSE IF \E i \in 1..Len(keys) : keys[i] = Head(ks)
         THEN AddUnique(keys, Tail(ks))
         ELSE AddUnique(Append(keys, Head(ks)), Tail(ks))

\* Object.keys(obj).filter(k => isComponent(obj, k) && k # skip)
ComponentKeysIn(obj, skip) ==
    SelectSeq(ObjectKeys(obj), LAMBDA k : isComponent(obj, k) /\ k \notin skip)

\* getAllComponentKeys()
getAllComponentKeys(cfg, envConfigName, fullRegion) ==
    LET fromDefaults == IF Truthy(cfg.defaults)
                        THEN ComponentKeysIn(cfg.defaults, {})
                        ELSE <<>>
        envConfig == EnvConfigOf(cfg, envConfigName)
        regionConfig == RegionConfigOf(cfg, envConfigName, fullRegion)
        fromEnv == IF Truthy(envConfig) THEN ComponentKeysIn(envConfig, {"regions"}) ELSE <<>>
        fromRegion == IF Truthy(envConfig) /\ fullRegion # "" /\ Truthy(regionConfig)
                      THEN ComponentKeysIn(regionConfig, {})
                      ELSE <<>>
    IN  AddUnique(AddUnique(AddUnique(<<>>, fromDefaults), fromEnv), fromRegion)

\* Object.fromEntries(Object.entries(obj ?? {}).filter(isNonComponent))
NonComponentPart(obj) ==
    FromEntries(SelectSeq(ObjectEntries(Coalesce(obj, EmptyMap)),
                          LAMBDA e : ~IsPlainObject(e[2])))

\* getGlobalMerged()
getGlobalMerged(cfg, envConfigName, fullRegion) ==
    LET d == NonComponentPart(cfg.defaults)
        e == NonComponentPart(EnvConfigOf(cfg, envConfigName))
        r == IF fullRegion # ""
             THEN NonComponentPart(RegionConfigOf(cfg, envConfigName, fullRegion))
             ELSE EmptyMap
    IN  deepMerge(<<d, e, r>>)

SeqContains(keys, k) == \E i \in 1..Len(keys) : keys[i] = k

RECURSIVE ValidComponents_NoRegionSkip(_, _, _, _, _)
\* (mutation) the loop without the skip of components that need a region
ValidComponents_NoRegionSkip(cfg, envConfigName, region, keys, acc) ==
    IF keys = <<>> THEN acc
    ELSE LET key == Head(keys)
             compConfig == getMergedComponentConfig(cfg, envConfigName, FullRegionOf(region), key)
         IN  IF ~hasNullValues(compConfig)
             THEN ValidComponents_NoRegionSkip(cfg, envConfigName, region, Tail(keys),
                                               Append(acc, <<key, compConfig>>))
             ELSE ValidComponents_NoRegionSkip(cfg, envConfigName, region, Tail(keys), acc)

RECURSIVE ValidComponents(_, _, _, _, _)
\* the loop that fills validComponents
ValidComponents(cfg, envConfigName, region, keys, acc) ==
    IF keys = <<>> THEN acc
    ELSE LET key == Head(keys)
             compConfig == getMergedComponentConfig(cfg, envConfigName, FullRegionOf(region), key)
         IN  IF EnvHasRegions(cfg, envConfigName) /\ region = ""
                /\ ~isComponentRegionAgnostic(cfg, envConfigName, key)
             THEN ValidComponents(cfg, envConfigName, region, Tail(keys), acc)
             ELSE IF ~hasNullValues(compConfig)
                  THEN ValidComponents(cfg, envConfigName, region, Tail(keys),
                                       Append(acc, <<key, compConfig>>))
                  ELSE ValidComponents(cfg, envConfigName, region, Tail(keys), acc)

\* finalResult.env_name = ...; ... finalResult.is_ephemeral = ...
InjectMetadata(finalResult, det, fullRegion, shortRegion) ==
    Assign(Assign(Assign(Assign(Assign(finalResult,
        "env_name", Str(det.envName)),
        "env_config_name", Str(det.envConfigName)),
        "region", fullRegion),
        "region_short", Str(shortRegion)),
        "is_ephemeral", Bool(det.isEphemeral))

RegionInvalidMsg(region) == "Region '" \o region \o "' is not a valid region code or name"

\* (mutation) the message names only the first declared region
RegionRequiredMsg_FirstOnly(envConfigName, envRegions) ==
    "Environment '" \o envConfigName
    \o "' has regions defined. You must specify a region. Available regions: "
    \o ObjectKeys(envRegions)[1]

RegionRequiredMsg(envConfigName, envRegions) ==
    "Environment '" \o envConfigName
    \o "' has regions defined. You must specify a region. Available regions: "
    \o JoinWith(ObjectKeys(envRegions), ", ")

ComponentNotFoundMsg(component) ==
    "Component '" \o component
    \o "' not found or is not a valid component in the merged configuration"

NoValidComponentsMsg ==
    "No valid components found for target. All components contain null values."

NullValueMsg(path) ==
    "Configuration contains null value at path: " \o path
    \o ". All required fields must have concrete values defined in the environment configuration."

\* !envSource || !envSource[envConfigName]
IsEnvMissing(envSource, envConfigName) ==
    ~Truthy(envSource) \/ ~Truthy(Get(envSource, envConfigName))

\* mergeConfig up to and including the injection of the five metadata
\* fields: the assembled finalResult, or the failure thrown before it
AssembleResult(cfg, o) ==
    LET envSource == cfg.environments
        det == determineEnvironment(envSource, o.env, o.ephemeralBranchPrefix,
                                    o.disableEphemeralBranchCheck, o.branchName)
    IN  IF ~det.ok THEN det
        ELSE
        LET envConfigName == det.envConfigName
            region == o.region
            component == o.component
            fullRegion == FullRegionOf(region)
            fullRegionValue == FullRegionValue(region)
            shortRegion == ShortRegionOf(region)
            envHasRegions == EnvHasRegions(cfg, envConfigName)
            allComponentKeys == getAllComponentKeys(cfg, envConfigName, fullRegion)
        IN  IF IsEnvMissing(envSource, envConfigName)
            THEN Fail("EnvironmentNotFound", EnvNotFoundMsg(envConfigName))
            ELSE IF IsInvalidRegion(region)
            THEN Fail("InvalidRegion", RegionInvalidMsg(region))
            ELSE IF component # "" /\ envHasRegions /\ region = ""
                    /\ ~isComponentRegionAgnostic(cfg, envConfigName, component)
            THEN Fail("RegionRequired",
                      RegionRequiredMsg(envConfigName, EnvRegionsOf(cfg, envConfigName)))
            ELSE IF component # ""
            THEN IF ~SeqContains(allComponentKeys, component)
                 THEN Fail("ComponentNotFound", ComponentNotFoundMsg(component))
                 ELSE LET componentConfig ==
                              getMergedComponentConfig(cfg, envConfigName, fullRegion, component)
                          nonComponentProps == getGlobalMerged(cfg, envConfigName, fullRegion)
                      IN  [ok |-> TRUE,
                           value |-> InjectMetadata(Spread(nonComponentProps, componentConfig),
                                                    det, fullRegionValue, shortRegion)]
            ELSE LET validComponents ==
                         ValidComponents(cfg, envConfigName, region, allComponentKeys, <<>>)
                 IN  IF Len(validComponents) = 0 /\ Len(allComponentKeys) > 0
                     THEN Fail("NoValidComponents", NoValidComponentsMsg)
                     ELSE [ok |-> TRUE,
                           value |-> InjectMetadata(
                               Spread(getGlobalMerged(cfg, envConfigName, fullRegion),
                                      FromEntries(validComponents)),
                               det, fullRegionValue, shortRegion)]

\* validateNoNullValues(finalResult) and the output-mode switch
FinishResult(a, o) ==
    IF ~a.ok THEN a
    ELSE LET bad == validateNoNullValues(a.value, "")
         IN  IF bad.found THEN Fail("RequiredFieldMissing", NullValueMsg(bad.path))
             ELSE IF o.output = "flatten"
                  THEN [ok |-> TRUE, value |-> flatten(a.value, "", Coalesce(o.delimiter, Str(".")).v)]
                  ELSE [ok |-> TRUE, value |-> a.value]

\* mergeConfig(options)
mergeConfig(cfg, o) == FinishResult(AssembleResult(cfg, o), o)

(***************************************************************************)
(* lib/scanner.ts: availability scan                                       *)
(***************************************************************************)
\* AwsRegionToShortCode[fullRegion] ?? fullRegion; the reverse table is
\* built by Object.fromEntries, where the last entry for a name wins
getRegionShortCode(fullRegion) ==
    LET hits == {i \in RegionIdx : AwsRegionMapping[i][2] = fullRegion}
    IN  IF hits # {}
        THEN Str(AwsRegionMapping[CHOOSE i \in hits : \A j \in hits : i >= j][1])
        ELSE IF fullRegion \in InheritedFunctions THEN Fn(fullRegion)
        ELSE Str(fullRegion)

\* AwsRegionMapping[shortCode] ?? shortCode
getRegionFullName(shortCode) == Coalesce(RegionMember(shortCode), Str(shortCode))

\* `${value}` of a string or of an inherited function
TemplateText(value) == IF value.t = "fn" THEN FunctionText(value.v) ELSE value.v

\* (mutation) only the defaults level decides the flag
isRegionAgnosticInScan_DefaultsOnly(cfg, envName, componentName) ==
    LET defaults == Coalesce(cfg.defaults, EmptyMap)
        merged == deepMerge(<<Coalesce(Get(defaults, componentName), EmptyMap)>>)
    IN  Get(merged, "_regionAgnostic") = Bool(TRUE)

\* scanner isComponentRegionAgnostic(config, envSource, envName, componentName)
isRegionAgnosticInScan(cfg, envName, componentName) ==
    LET defaults == Coalesce(cfg.defaults, EmptyMap)
        envConfig == Coalesce(Get(cfg.environments, envName), EmptyMap)
        defaultComp == Get(defaults, componentName)
        envComp == Get(envConfig, componentName)
        merged == deepMerge(<<Coalesce(defaultComp, EmptyMap), Coalesce(envComp, EmptyMap)>>)
    IN  Get(merged, "_regionAgnostic") = Bool(TRUE)

Invalid(reason) == [valid |-> FALSE, reason |-> reason]
Valid(hasConfig) == [valid |-> TRUE, hasConfig |-> hasConfig]

\* Object.keys(x).length: own keys of a mapping, indices of an array or of
\* a string
KeyCount(x) == IF x.t = "str" THEN Len(x.v) ELSE Len(ObjectKeys(x))

\* Boolean(comp && Object.keys(comp).length > 0)
HasOwnConfig(comp) == Truthy(comp) /\ KeyCount(comp) > 0

\* checkComponentValidity(config, envSource, envName, region, componentName);
\* region "" stands for null
checkComponentValidity(cfg, envName, region, componentName) ==
    LET defaults == Coalesce(cfg.defaults, EmptyMap)
        envConfig == Coalesce(Get(cfg.environments, envName), EmptyMap)
        regionConfig == IF region # ""
                        THEN Coalesce(OptGet(Get(envConfig, "regions"), region), EmptyMap)
                        ELSE EmptyMap
        defaultComp == Get(defaults, componentName)
        envComp == Get(envConfig, componentName)
        regionComp == Get(regionConfig, componentName)
        merged == deepMerge(<<Coalesce(defaultComp, EmptyMap), Coalesce(envComp, EmptyMap),
                              Coalesce(regionComp, EmptyMap)>>)
        nullPath == findNullValue(merged, "")
    IN  IF ~Truthy(defaultComp) /\ ~Truthy(envComp) /\ ~Truthy(regionComp)
        THEN Invalid("component_not_found")
        ELSE IF nullPath.found /\ nullPath.path # ""
        THEN Invalid("null_value_at_" \o nullPath.path)
        ELSE Valid(IF region # "" THEN HasOwnConfig(regionComp) ELSE HasOwnConfig(envComp))

\* one element of regionResults
RegionEntry(cfg, envName, region, componentName) ==
    LET regionResult == checkComponentValidity(cfg, envName, region, componentName)
    IN  IF regionResult.valid
        THEN [region |-> region, valid |-> TRUE, hasConfig |-> regionResult.hasConfig,
              target |-> envName \o "-" \o TemplateText(getRegionShortCode(region))]
        ELSE [region |-> region, valid |-> FALSE, reason |-> regionResult.reason]

\* (mutation) the region checks do not count
IsAvailable_EnvOnly(envValid, anyRegionValid) == envValid

\* envResult.valid || anyRegionValid
IsAvailable(envValid, anyRegionValid) == envValid \/ anyRegionValid

\* getComponentEnvAvailability(config, envSource, envName, regions, componentName)
getComponentEnvAvailability(cfg, envName, regions, componentName) ==
    LET regionAgnostic == isRegionAgnosticInScan(cfg, envName, componentName)
        envResult == checkComponentValidity(cfg, envName, "", componentName)
        regionResults == IF ~regionAgnostic
                         THEN [i \in 1..Len(regions) |->
                                  RegionEntry(cfg, envName, regions[i], componentName)]
                         ELSE <<>>
        anyRegionValid == \E i \in 1..Len(regionResults) : regionResults[i].valid
    IN  [available |-> IsAvailable(envResult.valid, anyRegionValid),
         envLevel |-> IF envResult.valid
                      THEN [valid |-> TRUE, hasConfig |-> envResult.hasConfig, target |-> envName]
                      ELSE [valid |-> FALSE, reason |-> envResult.reason],
         regions |-> IF Len(regionResults) > 0 THEN Arr(regionResults) ELSE Undef,
         regionAgnostic |-> IF regionAgnostic THEN Bool(TRUE) ELSE Undef]

\* { ...name, ...availability }
WithName(name, availability) == name @@ availability

\* envConfig?.regions ? Object.keys(envConfig.regions) : []
RegionNamesOf(envConfig) ==
    IF Truthy(OptGet(envConfig, "regions")) THEN ObjectKeys(Get(envConfig, "regions")) ELSE <<>>

\* checkComponentAvailability(config, componentName)
checkComponentAvailability(cfg, componentName) ==
    LET envSource == cfg.environments
        envNames == IF Truthy(envSource) THEN ObjectKeys(envSource) ELSE <<>>
    IN  [component |-> componentName,
         environments |->
             [i \in 1..Len(envNames) |->
                 WithName([environment |-> envNames[i]],
                          getComponentEnvAvailability(
                              cfg, envNames[i], RegionNamesOf(Get(envSource, envNames[i])),
                              componentName))]]

\* Object.keys(obj).filter(key => !reserved.has(key) && obj[key] is a mapping)
MappingKeysIn(obj, reserved) ==
    SelectSeq(ObjectKeys(obj), LAMBDA key : key \notin reserved /\ IsPlainObject(Get(obj, key)))

RECURSIVE AddRegionNames(_, _, _)
\* the region-level loop of getAllComponentNames
AddRegionNames(keys, regionsObj, regionNames) ==
    IF regionNames = <<>> THEN keys
    ELSE LET regionConfig == Get(regionsObj, Head(regionNames))
         IN  AddRegionNames(IF Truthy(regionConfig)
                            THEN AddUnique(keys, MappingKeysIn(regionConfig, {}))
                            ELSE keys,
                            regionsObj, Tail(regionNames))

RECURSIVE AddEnvNames(_, _, _)
\* the environment loop of getAllComponentNames
AddEnvNames(keys, envSource, envNames) ==
    IF envNames = <<>> THEN keys
    ELSE LET envConfig == Get(envSource, Head(envNames))
             own == AddUnique(keys, MappingKeysIn(envConfig, {"regions", "accountId"}))
             all == IF Truthy(Get(envConfig, "regions"))
                    THEN AddRegionNames(own, Get(envConfig, "regions"),
                                        ObjectKeys(Get(envConfig, "regions")))
                    ELSE own
         IN  AddEnvNames(IF Truthy(envConfig) THEN all ELSE keys, envSource, Tail(envNames))

\* getAllComponentNames(config)
getAllComponentNames(cfg) ==
    LET fromDefaults == IF Truthy(cfg.defaults) THEN AddUnique(<<>>, ObjectKeys(cfg.defaults))
                        ELSE <<>>
    IN  IF Truthy(cfg.environments)
        THEN AddEnvNames(fromDefaults, cfg.environments, ObjectKeys(cfg.environments))
        ELSE fromDefaults

\* the per-environment entry of checkAllComponentsAvailability
EnvironmentEntry(cfg, envName, componentNames) ==
    LET regions == RegionNamesOf(Get(cfg.environments, envName))
        components == [i \in 1..Len(componentNames) |->
                          WithName([component |-> componentNames[i]],
                                   getComponentEnvAvailability(
                                       cfg, envName, regions, componentNames[i]))]
    IN  [environment |-> envName,
         valid |-> \E i \in 1..Len(components) : components[i].available,
         components |-> components]

\* checkAllComponentsAvailability(config)
checkAllComponentsAvailability(cfg) ==
    LET envSource == cfg.environments
        componentNames == getAllComponentNames(cfg)
        envNames == ObjectKeys(envSource)
    IN  IF ~Truthy(envSource) \/ Len(componentNames) = 0
        THEN [environments |-> <<>>]
        ELSE [environments |->
                 [i \in 1..Len(envNames) |-> EnvironmentEntry(cfg, envNames[i], componentNames)]]

(***************************************************************************)
(* Documents and requests the resolver is run on                           *)
(***************************************************************************)
MaxRegions == 2

\* the region names an environment may declare, in declaration order
RegionPool == <<"us-west-2", "us-east-1", "eu-west-1">>

\* a mapping holding the present (not Undef) ones of the given entries
Obj(entries) == Map(SelectSeq(entries, LAMBDA e : e[2] # Undef))

\* candidate contents of defaults.db, environments.dev.db and
\* environments.dev.regions["us-west-2"].db
DefaultsDb ==
    { Undef,
      Obj(<< <<"host", Null>>, <<"_regionAgnostic", Bool(TRUE)>> >>),
      Obj(<< <<"host", Str("d")>>,
             <<"opts", Obj(<< <<"x", Null>>, <<"_m", Str("d")>> >>)>> >>),
      Obj(<< <<"host", Str("d")>>, <<"", Obj(<< <<"a", Null>> >>)>>,
             <<"tag", Str("dt")>> >>) }
EnvDb ==
    { Undef,
      Obj(<< <<"host", Str("e")>>, <<"region", Str("er")>> >>),
      Obj(<< <<"_regionAgnostic", Bool(FALSE)>>, <<"opts", Obj(<< <<"x", Str("e")>> >>)>>,
             <<"", Obj(<< <<"a", Str("e")>> >>)>> >>),
      Obj(<< <<"host", Null>> >>) }
RegionDb ==
    { Undef,
      Obj(<< <<"host", Str("r")>>, <<"opts", Obj(<< <<"x", Str("r")>> >>)>> >>),
      Obj(<< <<"_regionAgnostic", Bool(TRUE)>>, <<"_note", Null>> >>) }

\* candidate second entries of defaults: the key "tag" as global metadata
\* (null) or as a second component, or a component named like one of the
\* injected fields
DefaultsSecond ==
    { <<"tag", Undef>>, <<"tag", Null>>, <<"tag", Obj(<< <<"a", Str("t")>> >>)>>,
      <<"region", Obj(<< <<"a", Str("x")>> >>)>> }
\* candidate values of the key "tag" of the environment and of the region
EnvTag == {Undef, Str("te"), Obj(<< <<"a", Null>> >>)}
RegionTag == {Undef, Arr(<<Str("tr")>>)}

\* environments.ephemeral, when declared
EphemeralEnv == Obj(<< <<"db", Obj(<< <<"host", Str("eph")>> >>)>> >>)

\* regions: { "us-west-2": r, <further names>: {} } with n declared regions
RegionsOf(n, r) ==
    IF n = 0 THEN Undef
    ELSE Map([i \in 1..n |-> <<RegionPool[i], IF i = 1 THEN r ELSE EmptyMap>>])

Document(dd, d2, ed, et, n, rd, rt, eph) ==
    [defaults |-> Obj(<< <<"db", dd>>, d2 >>),
     environments |->
         Obj(<< <<"dev", Obj(<< <<"db", ed>>, <<"tag", et>>,
                                <<"regions", RegionsOf(n, Obj(<< <<"db", rd>>, <<"tag", rt>> >>))>> >>)>>,
                <<"ephemeral", IF eph THEN EphemeralEnv ELSE Undef>> >>)]

\* documents for requests of the declared environment "dev"
Documents ==
    {Document(dd, d2, ed, et, 0, Undef, Undef, TRUE) :
        dd \in DefaultsDb, d2 \in DefaultsSecond, ed \in EnvDb, et \in EnvTag}
    \cup
    {Document(dd, d2, ed, et, n, rd, rt, TRUE) :
        dd \in DefaultsDb, d2 \in DefaultsSecond, ed \in EnvDb, et \in EnvTag,
        n \in 1..MaxRegions, rd \in RegionDb, rt \in RegionTag}

\* documents for requests that go through the ephemeral logic
EphemeralDocuments ==
    {Document(dd, d2, Undef, Undef, n, Undef, Undef, eph) :
        dd \in DefaultsDb, d2 \in {<<"tag", Undef>>, <<"_regionAgnostic", Bool(TRUE)>>},
        n \in {0, 1}, eph \in BOOLEAN}

Options(env, region, component, prefix, disable, branch) ==
    [env |-> env, region |-> region, component |-> component,
     ephemeralBranchPrefix |-> prefix, disableEphemeralBranchCheck |-> disable,
     branchName |-> branch]

\* requests for the declared environment "dev"
DevRequests ==
    {Options("dev", region, component, "", FALSE, "") :
        region \in {"", "usw2", "us-east-1", "zz"},
        component \in {"", "db", "zz"}}

\* requests that go through the ephemeral logic
EphemeralRequests ==
    {Options(env, region, component, prefix, disable, branch) :
        env \in {"ephemeral", "x1", "dev"}, region \in {"", "usw2"}, component \in {"", "db"},
        prefix \in {"", " ", "f/"}, disable \in BOOLEAN, branch \in {"", "f/x1"}}

\* <<output, delimiter>>
OutputChoices == {<<"json", Undef>>, <<"flatten", Undef>>, <<"flatten", Str("_")>>}

WithOutput(o, output, delimiter) ==
    [env |-> o.env, region |-> o.region, component |-> o.component,
     ephemeralBranchPrefix |-> o.ephemeralBranchPrefix,
     disableEphemeralBranchCheck |-> o.disableEphemeralBranchCheck,
     branchName |-> o.branchName, output |-> output, delimiter |-> delimiter]

\* documents that use the names of the injected fields themselves: a global
\* key env_name, a component "env" with a field "name", and a component db
\* with a field is_ephemeral
ShadowDocuments ==
    {[defaults |-> Obj(<< <<"env_name", g>>, <<"env", e>>,
                          <<"db", Obj(<< <<"host", Str("d")>>,
                                         <<"is_ephemeral", Str("h")>> >>)>> >>),
      environments |-> Obj(<< <<"dev", EmptyMap>> >>)] :
        g \in {Undef, Str("g")}, e \in {Undef, Obj(<< <<"name", Str("c")>> >>)}}

Init ==
    /\ pc = "call"
    /\ \/ config \in Documents \cup ShadowDocuments /\ args \in DevRequests
       \/ config \in EphemeralDocuments /\ args \in EphemeralRequests
    /\ result = Undef
    /\ assembled = Undef

\* one call of mergeConfig: the output mode and delimiter are the last
\* options read
Resolve ==
    /\ pc = "call"
    /\ \E out \in OutputChoices :
        LET o == WithOutput(args, out[1], out[2])
            a == AssembleResult(config, o)
        IN  /\ args' = o
            /\ assembled' = IF a.ok THEN a.value ELSE Undef
            /\ result' = FinishResult(a, o)
    /\ pc' = "done"
    /\ UNCHANGED config

Next == Resolve

Spec == Init /\ [][Next]_vars

(***************************************************************************)
(* mergeConfig on environment and region names of every kind               *)
(***************************************************************************)
\* a document whose environment dev declares the one region key rkey (none
\* when rkey is empty)
NamesDocument(dd, rkey, rd) ==
    [defaults |-> Obj(<< <<"db", dd>>, <<"tag", Str("dt")>> >>),
     environments |->
         Obj(<< <<"dev",
                  Obj(<< <<"regions",
                           IF rkey = "" THEN Undef
                           ELSE Map(<< <<rkey, Obj(<< <<"db", rd>>,
                                                      <<"tag", Arr(<<Str("tr")>>)>> >>)>> >>)>> >>)>> >>)]

NamesDocuments ==
    {NamesDocument(dd, rkey, rd) :
        dd \in DefaultsDb, rkey \in {"", "us-west-2", "eu-central-1", "zz", "usw2"},
        rd \in RegionDb}

\* requests by declared, undeclared and inherited names, for every known
\* region by short code and by full name, and for unknown region strings
NamesRequests ==
    {Options(env, region, component, "", FALSE, "") :
        env \in {"dev", "nope", "constructor"},
        region \in {""} \cup ShortCodes \cup FullNames \cup {"zz", "USW2", "constructor"},
        component \in {"", "db"}}

InitNames ==
    /\ pc = "call"
    /\ config \in NamesDocuments
    /\ args \in NamesRequests
    /\ result = Undef
    /\ assembled = Undef

SpecNames == InitNames /\ [][Next]_vars

(***************************************************************************)
(* parseTarget on its own                                                  *)
(***************************************************************************)
\* environment names: plain, hyphenated, ending in a hyphen, and names that
\* themselves look like (part of) a region
TargetEnvNames ==
    {"", "a", "dev", "my-env-name", "prod-us", "x-usw2", "us-east-1", "usw2", "dev-"}

\* what follows the environment name: nothing, a known short code or full
\* name, or a string that is neither
TargetTails ==
    {""} \cup ShortCodes \cup FullNames \cup {"zz", "USW2", "us-west-9", "west-2", "sw2"}

\* the target string a triple stands for
TargetOf(a) == a.env \o a.sep \o a.region

InitTarget ==
    /\ pc = "call"
    /\ config = Undef
    /\ args \in {[env |-> e, sep |-> h, region |-> r] :
                    e \in TargetEnvNames, h \in {"", "-"}, r \in TargetTails}
    /\ result = Undef
    /\ assembled = Undef

\* one call of parseTarget(target)
Parse ==
    /\ pc = "call"
    /\ result' = parseTarget(TargetOf(args))
    /\ pc' = "done"
    /\ UNCHANGED <<config, args, assembled>>

NextTarget == Parse

SpecTarget == InitTarget /\ [][NextTarget]_vars

(***************************************************************************)
(* deepMerge on its own                                                    *)
(***************************************************************************)
MergeLeaves == {Null, Str("v"), Arr(<<Str("1"), Str("2")>>), Arr(<<Str("3")>>)}

\* the mappings with keys among "a", "b" (in either order) and values in vals
MapsOver(vals) ==
    {Obj(<< <<"a", x>>, <<"b", y>> >>) : x \in vals \cup {Undef}, y \in vals \cup {Undef}}
    \cup {Obj(<< <<"b", y>>, <<"a", x>> >>) : x \in vals, y \in vals}

MergeInner ==
    {Obj(<< <<"a", x>>, <<"b", y>> >>) :
        x \in {Undef, Null, Str("v")}, y \in {Undef, Arr(<<Str("3")>>)}}

\* arguments of a two-argument merge
MergeMaps == MapsOver(MergeLeaves \cup MergeInner)

\* arguments of a three-argument merge
MergeMapsSmall ==
    {Obj(<< <<"a", x>> >>) :
        x \in {Undef, Null, Str("v"), Arr(<<Str("3")>>)}
              \cup {Obj(<< <<"a", y>>, <<"b", z>> >>) :
                       y \in {Undef, Null, Str("w")}, z \in {Undef, Str("v")}}}

InitMerge ==
    /\ pc = "call"
    /\ config = Undef
    /\ args \in {<<a, b>> : a \in MergeMaps, b \in MergeMaps}
               \cup {<<a, b, c>> : a \in MergeMapsSmall, b \in MergeMapsSmall,
                                   c \in MergeMapsSmall}
    /\ result = Undef
    /\ assembled = Undef

\* one call of deepMerge(...args)
Merge ==
    /\ pc = "call"
    /\ result' = deepMerge(args)
    /\ pc' = "done"
    /\ UNCHANGED <<config, args, assembled>>

NextMerge == Merge

SpecMerge == InitMerge /\ [][NextMerge]_vars

(***************************************************************************)
(* determineEnvironment on its own                                         *)
(***************************************************************************)
\* environments: { <name>: {} } for the given declared names, in this order
EnvSourceOf(names) ==
    Obj(<< <<"dev", IF "dev" \in names THEN EmptyMap ELSE Undef>>,
           <<"ephemeral", IF "ephemeral" \in names THEN EmptyMap ELSE Undef>>,
           <<"x1", IF "x1" \in names THEN EmptyMap ELSE Undef>>,
           <<"f/x1", IF "f/x1" \in names THEN EmptyMap ELSE Undef>> >>)

DeclaredNames == {"dev", "ephemeral", "x1", "f/x1"}
RequestedEnvs == {"dev", "ephemeral", "x1", "f/x1", "other"}
BranchPrefixes == {"", " ", "f/", "f.", "f+"}
BranchNames ==
    {"", "f/x1", "f.x1", "fax1", "f+x1", "ffx1", "f/X1", "f/", "x1", "f/dev", "f/ephemeral"}

InitEnv ==
    /\ pc = "call"
    /\ config \in {EnvSourceOf(names) : names \in SUBSET DeclaredNames}
    /\ args \in {Options(env, "", "", prefix, disable, branch) :
                    env \in RequestedEnvs, prefix \in BranchPrefixes,
                    disable \in BOOLEAN, branch \in BranchNames}
    /\ result = Undef
    /\ assembled = Undef

\* one call of determineEnvironment()
Determine ==
    /\ pc = "call"
    /\ result' = determineEnvironment(config, args.env, args.ephemeralBranchPrefix,
                                      args.disableEphemeralBranchCheck, args.branchName)
    /\ pc' = "done"
    /\ UNCHANGED <<config, args, assembled>>

NextEnv == Determine

SpecEnv == InitEnv /\ [][NextEnv]_vars

(***************************************************************************)
(* The availability scan on its own                                        *)
(***************************************************************************)
\* candidate contents of defaults.db, environments.dev.db and of the db of
\* the first region of dev
ScanDefaultsDb ==
    { Undef,
      Obj(<< <<"host", Str("d")>> >>),
      Obj(<< <<"host", Null>> >>),
      Obj(<< <<"host", Str("d")>>, <<"_regionAgnostic", Bool(TRUE)>> >>),
      Obj(<< <<"host", Null>>, <<"_regionAgnostic", Bool(TRUE)>> >>),
      Obj(<< <<"", Null>> >>),
      Obj(<< <<"", Obj(<< <<"a", Null>> >>)>>, <<"z", Null>> >>),
      Obj(<< <<"opts", Obj(<< <<"", Null>> >>)>>, <<"z", Null>> >>) }
ScanEnvDb ==
    { Undef, EmptyMap,
      Obj(<< <<"host", Str("e")>> >>),
      Obj(<< <<"port", Null>>, <<"host", Null>> >>),
      Obj(<< <<"_regionAgnostic", Bool(FALSE)>> >>),
      Arr(<<Str("x")>>) }
ScanRegionDb ==
    { Undef, EmptyMap,
      Obj(<< <<"host", Str("r")>> >>),
      Obj(<< <<"_regionAgnostic", Bool(TRUE)>> >>) }

\* candidate second environments
ScanProd ==
    { Undef,
      Obj(<< <<"db", Obj(<< <<"host", Str("p")>> >>)>> >>),
      Obj(<< <<"accountId", Obj(<< <<"id", Str("1")>> >>)>> >>),
      Obj(<< <<"regions", Obj(<< <<"us-east-1",
                 Obj(<< <<"db", Obj(<< <<"host", Null>> >>)>> >>)>> >>)>> >>) }

\* the content of the i-th region of dev: the first holds db, the second a
\* component declared nowhere else, the others are empty
ScanRegion(i, rd) ==
    IF i = 1 THEN Obj(<< <<"db", rd>> >>)
    ELSE IF i = 2 THEN Obj(<< <<"cache", Obj(<< <<"ttl", Str("1")>> >>)>> >>)
    ELSE EmptyMap

\* regions: the first n names of RegionPool; no key "regions" when n = 0
ScanRegionsOf(n, rd) ==
    IF n = 0 THEN Undef
    ELSE Map([i \in 1..n |-> <<RegionPool[i], ScanRegion(i, rd)>>])

ScanDocument(dd, dt, ed, n, rd, prod) ==
    [defaults |-> Obj(<< <<"db", dd>>, <<"tag", dt>> >>),
     environments |-> Obj(<< <<"dev", Obj(<< <<"db", ed>>,
                                             <<"regions", ScanRegionsOf(n, rd)>> >>)>>,
                             <<"prod", prod>> >>)]

ScanDocuments ==
    {ScanDocument(dd, dt, ed, n, rd, prod) :
        dd \in ScanDefaultsDb, dt \in {Undef, Str("t")}, ed \in ScanEnvDb,
        n \in 1..MaxRegions, rd \in ScanRegionDb, prod \in ScanProd}
    \cup {ScanDocument(dd, dt, ed, 0, Undef, prod) :
        dd \in ScanDefaultsDb, dt \in {Undef, Str("t")}, ed \in ScanEnvDb,
        prod \in ScanProd}
    \cup {[defaults |-> EmptyMap, environments |-> Obj(<< <<"dev", EmptyMap>> >>)],
          [defaults |-> Obj(<< <<"db", EmptyMap>> >>), environments |-> Undef]}

ScanComponents == {"db", "tag", "cache", "nope"}
ScanEnvNames == {"dev", "prod", "nope"}
ScanRegionNames == {""} \cup {RegionPool[i] : i \in 1..MaxRegions}

ScanRequest(op, component, env, region) ==
    [op |-> op, component |-> component, env |-> env, region |-> region]

InitScan ==
    /\ pc = "call"
    /\ config \in ScanDocuments
    /\ args \in {ScanRequest("none", c, "", "") : c \in ScanComponents}
    /\ result = Undef
    /\ assembled = Undef

\* one call of checkComponentValidity()
CheckValidity ==
    /\ pc = "call"
    /\ Truthy(config.environments)
    /\ \E env \in ScanEnvNames, region \in ScanRegionNames :
          /\ args' = ScanRequest("validity", args.component, env, region)
          /\ result' = checkComponentValidity(config, env, region, args.component)
    /\ pc' = "done"
    /\ UNCHANGED <<config, assembled>>

\* one call of checkComponentAvailability()
ScanComponent ==
    /\ pc = "call"
    /\ args' = ScanRequest("component", args.component, "", "")
    /\ result' = checkComponentAvailability(config, args.component)
    /\ pc' = "done"
    /\ UNCHANGED <<config, assembled>>

\* one call of checkAllComponentsAvailability()
ScanAll ==
    /\ pc = "call"
    /\ args' = ScanRequest("all", args.component, "", "")
    /\ result' = checkAllComponentsAvailability(config)
    /\ pc' = "done"
    /\ UNCHANGED <<config, assembled>>

NextScan == CheckValidity \/ ScanComponent \/ ScanAll

SpecScan == InitScan /\ [][NextScan]_vars

(***************************************************************************)
(* The same calls on objects in memory: mappings and arrays are objects    *)
(* with an address, a value is a scalar or a reference, and an assignment  *)
(* result[key] = value writes to the object at an address                  *)
(***************************************************************************)
Ref(a) == [t |-> "ref", a |-> a]
IsRef(x) == x.t = "ref"

\* value && typeof value === 'object' && !Array.isArray(value)
IsMappingAt(h, x) == IsRef(x) /\ h[x.a].t = "map"

\* {} or []: the memory with one more object; its address is Len(h) + 1
NewObject(h, kind) == Append(h, [t |-> kind, v |-> <<>>])

\* Object.entries(x)
EntriesAt(h, x) ==
    IF ~IsRef(x) THEN <<>>
    ELSE IF h[x.a].t = "map" THEN h[x.a].v
    ELSE [i \in 1..Len(h[x.a].v) |-> <<IndexKeys[i], h[x.a].v[i]>>]

\* x[key], x?.[key]
GetAt(h, x, key) ==
    LET hits == {i \in 1..Len(EntriesAt(h, x)) : EntriesAt(h, x)[i][1] = key}
    IN  IF hits = {} THEN Undef ELSE EntriesAt(h, x)[CHOOSE i \in hits : TRUE][2]

\* object[key] = val, on the object at address a
Store(h, a, key, val) == [h EXCEPT ![a] = Assign(h[a], key, val)]

RECURSIVE StoreAll(_, _, _)
\* object[k] = v for every entry, in order
StoreAll(h, a, entries) ==
    IF entries = <<>> THEN h
    ELSE StoreAll(Store(h, a, Head(entries)[1], Head(entries)[2]), a, Tail(entries))

\* a new mapping with the given entries: { ...entries }, Object.fromEntries
NewMapping(h, entries) ==
    [heap |-> StoreAll(NewObject(h, "map"), Len(h) + 1, entries), ref |-> Ref(Len(h) + 1)]

RECURSIVE Place(_, _)
RECURSIVE PlaceAll(_, _, _)
\* the object of the mapping or array x, its children placed as p
PlacedObject(p, x) ==
    [heap |-> Append(p.heap,
                     IF x.t = "map"
                     THEN Map([i \in 1..Len(x.v) |-> <<x.v[i][1], p.vals[i]>>])
                     ELSE Arr(p.vals)),
     ref |-> Ref(Len(p.heap) + 1)]

\* the values xs placed after the value placed as p
PlaceRest(p, xs, acc) == PlaceAll(p.heap, xs, Append(acc, p.ref))

\* the values xs placed in memory one after the other
PlaceAll(h, xs, acc) ==
    IF xs = <<>> THEN [heap |-> h, vals |-> acc]
    ELSE PlaceRest(Place(h, Head(xs)), Tail(xs), acc)

\* the JSON value x placed in memory, as JSON.parse does: children first
Place(h, x) ==
    IF x.t = "map"
    THEN PlacedObject(PlaceAll(h, [i \in 1..Len(x.v) |-> x.v[i][2]], <<>>), x)
    ELSE IF x.t = "arr" THEN PlacedObject(PlaceAll(h, x.v, <<>>), x)
    ELSE [heap |-> h, ref |-> x]

RECURSIVE ValueAt(_, _)
\* the JSON value a memory value stands for
ValueAt(h, x) ==
    IF ~IsRef(x) THEN x
    ELSE IF h[x.a].t = "map"
    THEN Map([i \in 1..Len(h[x.a].v) |-> <<h[x.a].v[i][1], ValueAt(h, h[x.a].v[i][2])>>])
    ELSE Arr([i \in 1..Len(h[x.a].v) |-> ValueAt(h, h[x.a].v[i])])

\* (mutation) an incoming array is pushed onto the array already there
Replace_PushArrays(h, res, key, objValue) ==
    LET resultValue == GetAt(h, Ref(res), key)
    IN  IF IsRef(objValue) /\ h[objValue.a].t = "arr"
           /\ IsRef(resultValue) /\ h[resultValue.a].t = "arr"
        THEN [h EXCEPT ![resultValue.a] = Arr(h[resultValue.a].v \o h[objValue.a].v)]
        ELSE Store(h, res, key, objValue)

\* result[key] = objValue: whatever is not a pair of mappings is replaced
Replace(h, res, key, objValue) == Store(h, res, key, objValue)

\* result[key] = m, for the object m a nested call has just returned
StoreReturned(m, res, key) == Store(m.heap, res, key, m.ref)

RECURSIVE deepMergeAt(_, _)
RECURSIVE MergeEntriesAt(_, _, _)
\* the inner loop of deepMerge, writing to the object at address res
MergeEntriesAt(h, res, entries) ==
    IF entries = <<>> THEN h
    ELSE LET key == Head(entries)[1]
             objValue == Head(entries)[2]
             resultValue == GetAt(h, Ref(res), key)
         IN  IF IsMappingAt(h, objValue) /\ IsMappingAt(h, resultValue)
             THEN MergeEntriesAt(StoreReturned(deepMergeAt(h, <<resultValue, objValue>>),
                                               res, key),
                                 res, Tail(entries))
             ELSE MergeEntriesAt(Replace(h, res, key, objValue), res, Tail(entries))

RECURSIVE MergeObjectsAt(_, _, _)
\* the outer loop of deepMerge
MergeObjectsAt(h, res, objects) ==
    IF objects = <<>> THEN h
    ELSE IF ~IsRef(Head(objects)) THEN MergeObjectsAt(h, res, Tail(objects))
    ELSE MergeObjectsAt(MergeEntriesAt(h, res, EntriesAt(h, Head(objects))),
                        res, Tail(objects))

\* (mutation) const result = objects[0]: the merge writes into its first
\* argument
deepMergeAt_IntoFirst(h, objects) ==
    IF objects # <<>> /\ IsMappingAt(h, Head(objects))
    THEN [heap |-> MergeObjectsAt(h, Head(objects).a, Tail(objects)), ref |-> Head(objects)]
    ELSE [heap |-> MergeObjectsAt(NewObject(h, "map"), Len(h) + 1, objects),
          ref |-> Ref(Len(h) + 1)]

\* deepMerge(...objects): const result = {}; ...; return result
deepMergeAt(h, objects) ==
    [heap |-> MergeObjectsAt(NewObject(h, "map"), Len(h) + 1, objects),
     ref |-> Ref(Len(h) + 1)]

RECURSIVE stripMetadataKeysAt(_, _)
RECURSIVE StripEntriesAt(_, _, _)
\* the loop of stripMetadataKeys, writing to the object at address res
StripEntriesAt(h, res, entries) ==
    IF entries = <<>> THEN h
    ELSE LET key == Head(entries)[1]
             value == Head(entries)[2]
         IN  IF IsMetadataKey(key) THEN StripEntriesAt(h, res, Tail(entries))
             ELSE IF IsMappingAt(h, value)
             THEN StripEntriesAt(StoreReturned(stripMetadataKeysAt(h, value), res, key),
                                 res, Tail(entries))
             ELSE StripEntriesAt(Store(h, res, key, value), res, Tail(entries))

\* stripMetadataKeys(obj)
stripMetadataKeysAt(h, obj) ==
    [heap |-> StripEntriesAt(NewObject(h, "map"), Len(h) + 1, EntriesAt(h, obj)),
     ref |-> Ref(Len(h) + 1)]

\* the document the memory holds at the roots doc.defaults, doc.environments
DocumentValue(h, doc) ==
    [defaults |-> ValueAt(h, doc.defaults), environments |-> ValueAt(h, doc.environments)]

RECURSIVE OrEmptyAllAt(_, _, _)
\* x ?? {} for each x of xs, one after the other
OrEmptyAllAt(h, xs, acc) ==
    IF xs = <<>> THEN [heap |-> h, vals |-> acc]
    ELSE IF Head(xs).t \in {"undef", "null"}
    THEN OrEmptyAllAt(NewObject(h, "map"), Tail(xs), Append(acc, Ref(Len(h) + 1)))
    ELSE OrEmptyAllAt(h, Tail(xs), Append(acc, Head(xs)))

\* deepMerge(...p.vals) in the memory p.heap
deepMergeOf(p) == deepMergeAt(p.heap, p.vals)

\* envSource?.[envConfigName] and envSource?.[envConfigName]?.regions?.[fullRegion]
EnvConfigAt(h, doc, envConfigName) == GetAt(h, doc.environments, envConfigName)
RegionConfigAt(h, doc, envConfigName, fullRegion) ==
    GetAt(h, GetAt(h, EnvConfigAt(h, doc, envConfigName), "regions"), fullRegion)

\* merged?._regionAgnostic === true
FlagOf(m) == [heap |-> m.heap, flag |-> GetAt(m.heap, m.ref, "_regionAgnostic") = Bool(TRUE)]

\* isComponentRegionAgnostic(componentName) of mergeConfig
isComponentRegionAgnosticAt(h, doc, envConfigName, componentName) ==
    FlagOf(deepMergeOf(OrEmptyAllAt(h,
        <<GetAt(h, doc.defaults, componentName),
          GetAt(h, EnvConfigAt(h, doc, envConfigName), componentName)>>, <<>>)))

\* stripMetadataKeys(merged)
StrippedOf(m) == stripMetadataKeysAt(m.heap, m.ref)

\* getMergedComponentConfig(componentName)
getMergedComponentConfigAt(h, doc, envConfigName, fullRegion, componentName) ==
    StrippedOf(deepMergeOf(OrEmptyAllAt(h,
        <<GetAt(h, doc.defaults, componentName),
          GetAt(h, EnvConfigAt(h, doc, envConfigName), componentName),
          IF fullRegion # ""
          THEN GetAt(h, RegionConfigAt(h, doc, envConfigName, fullRegion), componentName)
          ELSE Undef>>, <<>>)))

\* Object.fromEntries(Object.entries(obj ?? {}).filter(isNonComponent))
NonComponentPartAt(h, obj) ==
    NewMapping(h, SelectSeq(EntriesAt(h, obj), LAMBDA e : ~IsMappingAt(h, e[2])))

RECURSIVE NonComponentPartsAt(_, _, _)
\* the non-component parts d, e and r, one after the other
NonComponentPartsAt(h, objs, acc) ==
    IF objs = <<>> THEN [heap |-> h, vals |-> acc]
    ELSE NonComponentPartsAt(NonComponentPartAt(h, Head(objs)).heap, Tail(objs),
                             Append(acc, Ref(Len(h) + 1)))

\* getGlobalMerged()
getGlobalMergedAt(h, doc, envConfigName, fullRegion) ==
    deepMergeOf(NonComponentPartsAt(h,
        <<doc.defaults, EnvConfigAt(h, doc, envConfigName),
          IF fullRegion # "" THEN RegionConfigAt(h, doc, envConfigName, fullRegion)
          ELSE Undef>>, <<>>))

\* envHasRegions && !region && !isComponentRegionAgnostic(key): the flag is
\* computed only when the first two hold
RegionCheckAt(h, doc, envConfigName, region, key) ==
    IF EnvHasRegions(DocumentValue(h, doc), envConfigName) /\ region = ""
    THEN isComponentRegionAgnosticAt(h, doc, envConfigName, key)
    ELSE [heap |-> h, flag |-> TRUE]

\* if (!hasNullValues(compConfig)) validComponents.push([key, compConfig])
PushIfValid(c, key, acc) ==
    [heap |-> c.heap,
     entries |-> IF ~hasNullValues(ValueAt(c.heap, c.ref)) THEN Append(acc, <<key, c.ref>>)
                 ELSE acc]

\* one round of the loop, after the region check ra
ComponentRound(ra, doc, envConfigName, region, key, acc) ==
    IF ~ra.flag THEN [heap |-> ra.heap, entries |-> acc]
    ELSE PushIfValid(getMergedComponentConfigAt(ra.heap, doc, envConfigName,
                                                FullRegionOf(region), key),
                     key, acc)

RECURSIVE ValidComponentsAt(_, _, _, _, _, _)
\* the rounds for keys, after the round that left s
NextRounds(s, doc, envConfigName, region, keys) ==
    ValidComponentsAt(s.heap, doc, envConfigName, region, keys, s.entries)

\* the loop that fills validComponents
ValidComponentsAt(h, doc, envConfigName, region, keys, acc) ==
    IF keys = <<>> THEN [heap |-> h, entries |-> acc]
    ELSE NextRounds(ComponentRound(RegionCheckAt(h, doc, envConfigName, region, Head(keys)),
                                   doc, envConfigName, region, Head(keys), acc),
                    doc, envConfigName, region, Tail(keys))

RECURSIVE flattenAt(_, _, _, _)
RECURSIVE FlattenEntriesAt(_, _, _, _, _)
\* Object.assign(result, f), for the object f a nested call has just returned
AssignReturned(f, res) == StoreAll(f.heap, res, EntriesAt(f.heap, f.ref))

\* the loop of flatten, writing to the object at address res
FlattenEntriesAt(h, res, entries, prefix, delimiter) ==
    IF entries = <<>> THEN h
    ELSE LET k == Head(entries)[1]
             v == Head(entries)[2]
             key == IF prefix # "" THEN prefix \o delimiter \o k ELSE k
         IN  IF IsMappingAt(h, v)
             THEN FlattenEntriesAt(AssignReturned(flattenAt(h, v, key, delimiter), res),
                                   res, Tail(entries), prefix, delimiter)
             ELSE FlattenEntriesAt(Store(h, res, key, v), res, Tail(entries),
                                   prefix, delimiter)

\* flatten(obj, prefix, delimiter)
flattenAt(h, obj, prefix, delimiter) ==
    [heap |-> FlattenEntriesAt(NewObject(h, "map"), Len(h) + 1, EntriesAt(h, obj),
                               prefix, delimiter),
     ref |-> Ref(Len(h) + 1)]

\* a call that throws
FailAt(h, failure) == [heap |-> h, outcome |-> failure]

\* a call that returns the object f
ReturnAt(f) == [heap |-> f.heap, outcome |-> [ok |-> TRUE, value |-> f.ref]]

\* finalResult.env_name = ...; ... finalResult.is_ephemeral = ...
InjectMetadataAt(fin, det, region) ==
    [heap |-> StoreAll(fin.heap, fin.ref.a,
                       << <<"env_name", Str(det.envName)>>,
                          <<"env_config_name", Str(det.envConfigName)>>,
                          <<"region", FullRegionValue(region)>>,
                          <<"region_short", Str(ShortRegionOf(region))>>,
                          <<"is_ephemeral", Bool(det.isEphemeral)>> >>),
     ref |-> fin.ref]

\* validateNoNullValues(finalResult) and the output-mode switch
FinishResultAt(fin, o) ==
    LET bad == validateNoNullValues(ValueAt(fin.heap, fin.ref), "")
    IN  IF bad.found
        THEN FailAt(fin.heap, Fail("RequiredFieldMissing", NullValueMsg(bad.path)))
        ELSE IF o.output = "flatten"
        THEN ReturnAt(flattenAt(fin.heap, fin.ref, "", Coalesce(o.delimiter, Str(".")).v))
        ELSE ReturnAt(fin)

\* the injection of the five fields, validateNoNullValues and the output
\* mode, on the finalResult at fin.ref
FinishAt(fin, det, region, o) == FinishResultAt(InjectMetadataAt(fin, det, region), o)

\* { ...a, ...b } for the objects a and b, in the memory h
SpreadAt(h, a, b) == NewMapping(h, EntriesAt(h, a) \o EntriesAt(h, b))

\* merged = { ...getGlobalMerged(), [component]: componentConfig }
NestedUnder(g, cc, component) ==
    NewMapping(g.heap, Append(EntriesAt(g.heap, g.ref), <<component, cc.ref>>))

\* finalResult = { ...nonComponentProps, ...componentConfig }
HoistedOver(g, cc) == SpreadAt(g.heap, g.ref, cc.ref)

\* the component branch after getMergedComponentConfig(component) gave cc
HoistAt(cc, doc, envConfigName, fullRegion, component) ==
    HoistedOver(
        getGlobalMergedAt(
            NestedUnder(getGlobalMergedAt(cc.heap, doc, envConfigName, fullRegion),
                        cc, component).heap,
            doc, envConfigName, fullRegion),
        cc)

\* the component branch after the region check ra
ComponentBranchAt(ra, doc, cfg, det, o) ==
    IF ~ra.flag
    THEN FailAt(ra.heap,
                Fail("RegionRequired",
                     RegionRequiredMsg(det.envConfigName,
                                       EnvRegionsOf(cfg, det.envConfigName))))
    ELSE IF ~SeqContains(getAllComponentKeys(cfg, det.envConfigName, FullRegionOf(o.region)),
                         o.component)
    THEN FailAt(ra.heap, Fail("ComponentNotFound", ComponentNotFoundMsg(o.component)))
    ELSE FinishAt(HoistAt(getMergedComponentConfigAt(ra.heap, doc, det.envConfigName,
                                                     FullRegionOf(o.region), o.component),
                          doc, det.envConfigName, FullRegionOf(o.region), o.component),
                  det, o.region, o)

\* { ...g, ...fe } for the globals g and fe = Object.fromEntries(validComponents)
MergedOf(g, fe) == SpreadAt(fe.heap, g.ref, fe.ref)

\* merged = { ...getGlobalMerged(), ...Object.fromEntries(validComponents) }
MergedWith(g, entries) == MergedOf(g, NewMapping(g.heap, entries))

\* the branch without a component after the loop left vc
AllComponentsAt(vc, doc, cfg, det, o) ==
    IF Len(vc.entries) = 0
       /\ Len(getAllComponentKeys(cfg, det.envConfigName, FullRegionOf(o.region))) > 0
    THEN FailAt(vc.heap, Fail("NoValidComponents", NoValidComponentsMsg))
    ELSE FinishAt(MergedWith(getGlobalMergedAt(vc.heap, doc, det.envConfigName,
                                               FullRegionOf(o.region)),
                             vc.entries),
                  det, o.region, o)

\* mergeConfig after determineEnvironment returned det
ResolvedAt(h, doc, cfg, det, o) ==
    IF IsEnvMissing(cfg.environments, det.envConfigName)
    THEN FailAt(h, Fail("EnvironmentNotFound", EnvNotFoundMsg(det.envConfigName)))
    ELSE IF IsInvalidRegion(o.region)
    THEN FailAt(h, Fail("InvalidRegion", RegionInvalidMsg(o.region)))
    ELSE IF o.component # ""
    THEN ComponentBranchAt(RegionCheckAt(h, doc, det.envConfigName, o.region, o.component),
                           doc, cfg, det, o)
    ELSE AllComponentsAt(ValidComponentsAt(h, doc, det.envConfigName, o.region,
                                           getAllComponentKeys(cfg, det.envConfigName,
                                                               FullRegionOf(o.region)),
                                           <<>>),
                         doc, cfg, det, o)

\* the outcome of determineEnvironment, then the rest of mergeConfig
DeterminedAt(h, doc, cfg, det, o) ==
    IF ~det.ok THEN FailAt(h, det) ELSE ResolvedAt(h, doc, cfg, det, o)

\* mergeConfig(options) on the document in memory
mergeConfigAt(h, doc, o) ==
    DeterminedAt(h, doc, DocumentValue(h, doc),
                 determineEnvironment(DocumentValue(h, doc).environments, o.env,
                                      o.ephemeralBranchPrefix,
                                      o.disableEphemeralBranchCheck, o.branchName),
                 o)

\* defaultComp ?? {}, envComp ?? {}, regionComp ?? {} for the levels p
ScanLevelsAt(p, defaultComp, componentName) ==
    OrEmptyAllAt(p.heap,
                 <<defaultComp, GetAt(p.heap, p.vals[1], componentName),
                   GetAt(p.heap, p.vals[2], componentName)>>, <<>>)

\* checkComponentValidity(config, envSource, envName, region, componentName)
\* on the document in memory; region "" stands for null
checkComponentValidityAt(h, doc, envName, region, componentName) ==
    [heap |->
        deepMergeOf(
            ScanLevelsAt(
                OrEmptyAllAt(h,
                    <<GetAt(h, doc.environments, envName),
                      IF region # ""
                      THEN GetAt(h, GetAt(h, GetAt(h, doc.environments, envName), "regions"),
                                 region)
                      ELSE Undef>>, <<>>),
                GetAt(h, doc.defaults, componentName), componentName)).heap,
     outcome |-> checkComponentValidity(DocumentValue(h, doc), envName, region,
                                        componentName)]

(***************************************************************************)
(* Calls one after the other on one document in memory                     *)
(***************************************************************************)
MaxCalls == 2

\* the document placed in memory: config.defaults and config.environments
PlaceDocument(cfg) ==
    LET d == Place(<<>>, cfg.defaults)
        e == Place(d.heap, cfg.environments)
    IN  [heap |-> e.heap, defaults |-> d.ref, environments |-> e.ref]

MemoryDefaultsDb ==
    { Undef,
      Obj(<< <<"host", Str("d")>>,
             <<"opts", Obj(<< <<"x", Str("d")>>, <<"_m", Str("d")>> >>)>>,
             <<"list", Arr(<<Str("l")>>)>> >>),
      Obj(<< <<"host", Null>>, <<"_regionAgnostic", Bool(TRUE)>> >>) }
MemoryEnvDb == {Undef, Obj(<< <<"host", Str("e")>>, <<"opts", Obj(<< <<"x", Str("e")>> >>)>> >>)}

\* the global array "tags" of defaults and of the environment
MemoryTags ==
    {<<Undef, Undef>>, <<Arr(<<Str("a")>>), Undef>>, <<Arr(<<Str("a")>>), Arr(<<Str("b")>>)>>}

MemoryDocuments ==
    {[defaults |-> Obj(<< <<"db", dd>>, <<"tags", tags[1]>> >>),
      environments |->
          Obj(<< <<"dev", Obj(<< <<"db", ed>>, <<"tags", tags[2]>>,
                                 <<"regions", RegionsOf(n, Obj(<< <<"db", Obj(<< <<"host", Str("r")>> >>)>> >>))>> >>)>> >>)] :
        dd \in MemoryDefaultsDb, tags \in MemoryTags, ed \in MemoryEnvDb, n \in {0, 1}}

MemoryRequests ==
    {WithOutput(Options("dev", region, component, "", FALSE, ""), out[1], out[2]) :
        region \in {"", "usw2"}, component \in {"", "db"},
        out \in {<<"json", Undef>>, <<"flatten", Undef>>}}

\* what the calls so far were made on, how many they are, and the last one
Calls(document, n, op, request, before) ==
    [document |-> document, calls |-> n, op |-> op, request |-> request, before |-> before]

\* JSON.stringify of what a call returned, or the error it threw
Serialized(h, outcome) ==
    IF outcome = Undef THEN Undef
    ELSE IF "ok" \in DOMAIN outcome /\ outcome.ok
    THEN [ok |-> TRUE, value |-> ValueAt(h, outcome.value)]
    ELSE outcome

InitMemory ==
    /\ pc = "call"
    /\ \E cfg \in MemoryDocuments :
          /\ config = PlaceDocument(cfg)
          /\ args = Calls(cfg, 0, "none", Undef, [op |-> "none"])
    /\ result = Undef
    /\ assembled = Undef

\* the bookkeeping every call shares
Called(h, op, request, outcome) ==
    /\ config' = [config EXCEPT !.heap = h]
    /\ args' = Calls(args.document, args.calls + 1, op, request,
                     [op |-> args.op, request |-> args.request,
                      output |-> Serialized(config.heap, result)])
    /\ result' = outcome
    /\ pc' = IF args.calls + 1 = MaxCalls THEN "done" ELSE "call"
    /\ UNCHANGED assembled

\* one call of mergeConfig on the document in memory
ResolveAt ==
    /\ pc = "call"
    /\ \E o \in MemoryRequests :
          LET m == mergeConfigAt(config.heap, config, o)
          IN  Called(m.heap, "resolve", o, m.outcome)

\* one call of checkComponentValidity on the document in memory
CheckValidityAt ==
    /\ pc = "call"
    /\ \E region \in {"", "us-west-2"} :
          LET m == checkComponentValidityAt(config.heap, config, "dev", region, "db")
          IN  Called(m.heap, "scan", [env |-> "dev", region |-> region, component |-> "db"],
                     m.outcome)

\* one call of deepMerge on the db levels of the document in memory
MergeAt ==
    /\ pc = "call"
    /\ LET levels == <<GetAt(config.heap, config.defaults, "db"),
                       GetAt(config.heap, EnvConfigAt(config.heap, config, "dev"), "db")>>
           m == deepMergeAt(config.heap, levels)
       IN  Called(m.heap, "merge", Undef, [ok |-> TRUE, value |-> m.ref])

\* one call of parseTarget
ParseAt ==
    /\ pc = "call"
    /\ \E target \in {"dev", "dev-usw2"} :
          Called(config.heap, "parse", Str(target), parseTarget(target))

NextMemory == ResolveAt \/ CheckValidityAt \/ MergeAt \/ ParseAt

SpecMemory == InitMemory /\ [][NextMemory]_vars

(***************************************************************************)
(* The region codec on its own                                             *)
(***************************************************************************)
\* strings that are neither a short code nor a full name
UnknownRegions ==
    {"", "zz", "USW2", "us-west", "usw", "us-west-2 ", "constructor", "toString", "valueOf",
     "hasOwnProperty"}

CodecInputs == ShortCodes \cup FullNames \cup UnknownRegions

InitCodec ==
    /\ pc = "call"
    /\ config = Undef
    /\ args \in {[op |-> "none", text |-> s] : s \in CodecInputs}
    /\ result = Undef
    /\ assembled = Undef

\* the second function applied to what the first returned: a string is
\* looked up, anything else is no key of the table and comes back as it is
Back(once, shortThenFull) ==
    IF once.t # "str" THEN once
    ELSE IF shortThenFull THEN getRegionFullName(once.v) ELSE getRegionShortCode(once.v)

\* getRegionFullName(getRegionShortCode(text))
ToShortCode ==
    /\ pc = "call"
    /\ args' = [args EXCEPT !.op = "short"]
    /\ result' = [once |-> getRegionShortCode(args.text),
                  back |-> Back(getRegionShortCode(args.text), TRUE)]
    /\ pc' = "done"
    /\ UNCHANGED <<config, assembled>>

\* getRegionShortCode(getRegionFullName(text))
ToFullName ==
    /\ pc = "call"
    /\ args' = [args EXCEPT !.op = "full"]
    /\ result' = [once |-> getRegionFullName(args.text),
                  back |-> Back(getRegionFullName(args.text), FALSE)]
    /\ pc' = "done"
    /\ UNCHANGED <<config, assembled>>

NextCodec == ToShortCode \/ ToFullName

SpecCodec == InitCodec /\ [][NextCodec]_vars

(***************************************************************************)
(* A scan followed by the resolve of one of the targets it lists           *)
(***************************************************************************)
\* the options the resolve command passes for --target and --component,
\* with --disable-ephemeral-branch-check
TargetOptions(parsed, component) ==
    WithOutput(Options(parsed.env, Coalesce(parsed.region, Str("")).v, component,
                       "", TRUE, ""),
               "json", Undef)

InitAgree ==
    /\ pc = "call"
    /\ config \in ScanDocuments
    /\ args \in {[component |-> c] : c \in ScanComponents}
    /\ result = Undef
    /\ assembled = Undef

\* list-environments for the component: checkComponentAvailability()
ListTargets ==
    /\ pc = "call"
    /\ assembled' = checkComponentAvailability(config, args.component)
    /\ pc' = "listed"
    /\ UNCHANGED <<config, args, result>>

\* resolve --target t --component c: parseTarget, then mergeConfig
ResolveTarget(environment, region, target) ==
    LET parsed == parseTarget(target)
    IN  /\ args' = [component |-> args.component, environment |-> environment,
                    region |-> region, target |-> target, parsed |-> parsed]
        /\ result' = mergeConfig(config, TargetOptions(parsed, args.component))
        /\ pc' = "done"
        /\ UNCHANGED <<config, assembled>>

\* the target of a valid env-level entry is resolved
FollowEnvTarget ==
    /\ pc = "listed"
    /\ \E i \in 1..Len(assembled.environments) :
          LET e == assembled.environments[i]
          IN  /\ e.envLevel.valid
              /\ ResolveTarget(e.environment, Undef, e.envLevel.target)

\* the target of a valid region-level entry is resolved
FollowRegionTarget ==
    /\ pc = "listed"
    /\ \E i \in 1..Len(assembled.environments) :
          LET e == assembled.environments[i]
          IN  /\ e.regions # Undef
              /\ \E j \in 1..Len(e.regions.v) :
                    /\ e.regions.v[j].valid
                    /\ ResolveTarget(e.environment, Str(e.regions.v[j].region),
                                     e.regions.v[j].target)

NextAgree == ListTargets \/ FollowEnvTarget \/ FollowRegionTarget

SpecAgree == InitAgree /\ [][NextAgree]_vars

(***************************************************************************)
(* Properties                                                              *)
(***************************************************************************)
Returned == pc = "done" /\ result.ok
Failed(kind) == pc = "done" /\ ~result.ok /\ result.kind = kind

InjectedNames == {"env_name", "env_config_name", "region", "region_short", "is_ephemeral"}

\* the call got past environment resolution and region validation
TargetResolved ==
    /\ pc = "done"
    /\ result.ok \/ result.kind \notin {"EnvironmentNotFound", "EphemeralNameMismatch",
                                        "InvalidEphemeralBranchFormat", "InvalidRegion"}

\* the environment and region whose configuration the call then reads: a
\* declared name other than 'ephemeral' is used directly, every other
\* resolved request reads the environment named 'ephemeral'
ResolvedEnvName ==
    IF args.env # "ephemeral" /\ HasKey(config.environments, args.env)
    THEN args.env ELSE "ephemeral"
ResolvedEnv == Get(config.environments, ResolvedEnvName)
ResolvedRegion == Get(Get(ResolvedEnv, "regions"), FullRegionOf(args.region))

\* mapping-typed direct children of the three contributing levels
Discovered ==
    {k \in KeySet(config.defaults) : IsPlainObject(Get(config.defaults, k))}
    \cup {k \in KeySet(ResolvedEnv) \ {"regions"} : IsPlainObject(Get(ResolvedEnv, k))}
    \cup {k \in KeySet(ResolvedRegion) : IsPlainObject(Get(ResolvedRegion, k))}

\* deepMerge(defaults[c], env[c], region[c]), an absent level being skipped
ThreeLevelMerge(c) ==
    deepMerge(<<Get(config.defaults, c), Get(ResolvedEnv, c), Get(ResolvedRegion, c)>>)

\* the components a nested result holds: the discovered names under which
\* the output carries a mapping (global metadata is never a mapping)
ComponentsIn(out) == {c \in Discovered : IsPlainObject(Get(out, c))}

\* C1: in a returned nested result without a component filter, every
\* component c present in the output holds the three-level merge
\* defaults -> environment -> region of c, stripped of the keys that start
\* with '_' (an absent level counts as the empty mapping).
C1_Precedence ==
    (Returned /\ args.component = "" /\ args.output = "json") =>
        \A c \in ComponentsIn(result.value) :
            Get(result.value, c) = stripMetadataKeys(ThreeLevelMerge(c))

\* a returned result in which the region level beat the environment level,
\* which had beaten the default, on the same field of db
C1_Witness ==
    /\ Returned /\ args.component = "" /\ args.output = "json"
    /\ HasKey(result.value, "db")
    /\ Get(Get(config.defaults, "db"), "host") = Str("d")
    /\ Get(Get(ResolvedEnv, "db"), "host") = Str("e")
    /\ Get(Get(ResolvedRegion, "db"), "host") = Str("r")
    /\ Get(Get(result.value, "db"), "host") = Str("r")

RECURSIVE NullKeyPaths(_)
\* the key paths (sequences of keys) that lead to a null through mappings
NullKeyPaths(obj) ==
    UNION { LET k == ObjectEntries(obj)[i][1]
                v == ObjectEntries(obj)[i][2]
            IN  IF v.t = "null" THEN {<<k>>}
                ELSE IF IsPlainObject(v) THEN {<<k>> \o p : p \in NullKeyPaths(v)}
                ELSE {}
            : i \in 1..Len(ObjectEntries(obj)) }

\* C2: every returned result (nested or flattened, with or without a
\* component filter) holds no null at any depth, and whenever the assembled
\* result still holds a null after the five metadata fields are injected,
\* resolve fails with RequiredFieldMissing and the message names the
\* dot-joined key path of a null of that assembled result.
C2_NoNull ==
    /\ Returned => NullKeyPaths(result.value) = {}
    /\ (pc = "done" /\ assembled # Undef /\ NullKeyPaths(assembled) # {}) =>
           /\ Failed("RequiredFieldMissing")
           /\ \E p \in NullKeyPaths(assembled) : result.msg = NullValueMsg(JoinWith(p, "."))

\* what deepMerge had accumulated before its last argument, and that argument
Accumulated == IF Len(args) = 2 THEN args[1] ELSE deepMerge(SubSeq(args, 1, Len(args) - 1))
Incoming == args[Len(args)]

\* C3: for every key k of the last argument, the result at k is the
\* recursive merge when both the accumulated and the incoming value are
\* mappings, and otherwise the incoming value itself (an array is never
\* merged or concatenated, a null overwrites a concrete value); keys that
\* only earlier arguments have are kept unchanged, and no other key appears.
C3_MergeRule ==
    pc = "done" =>
        /\ KeySet(result) = KeySet(Accumulated) \cup KeySet(Incoming)
        /\ \A k \in KeySet(Incoming) :
               LET old == Get(Accumulated, k)
                   new == Get(Incoming, k)
               IN  IF IsPlainObject(old) /\ IsPlainObject(new)
                   THEN /\ Get(result, k) = deepMerge(<<old, new>>)
                        /\ KeySet(Get(result, k)) = KeySet(old) \cup KeySet(new)
                        /\ \A j \in KeySet(new) : Get(Get(result, k), j) = Get(new, j)
                        /\ \A j \in KeySet(old) \ KeySet(new) :
                               Get(Get(result, k), j) = Get(old, j)
                   ELSE Get(result, k) = new
        /\ \A k \in KeySet(Accumulated) \ KeySet(Incoming) :
               Get(result, k) = Get(Accumulated, k)

\* a merge that recursed into a nested mapping, replaced an array by an
\* array, and let a later null overwrite a concrete value
C3_Witness ==
    /\ pc = "done" /\ Len(args) = 2
    /\ IsPlainObject(Get(args[1], "a")) /\ IsPlainObject(Get(args[2], "a"))
    /\ Get(Get(args[1], "a"), "a") = Str("v") /\ Get(Get(args[2], "a"), "a") = Null
    /\ Get(Get(args[1], "a"), "b") = Arr(<<Str("3")>>) /\ ~HasKey(Get(args[2], "a"), "b")
    /\ Get(args[1], "b") = Arr(<<Str("1"), Str("2")>>) /\ Get(args[2], "b") = Arr(<<Str("3")>>)
    /\ Get(result, "b") = Arr(<<Str("3")>>)
    /\ Get(Get(result, "a"), "a") = Null
    /\ Get(Get(result, "a"), "b") = Arr(<<Str("3")>>)

\* the resolved environment declares at least one region
EnvDeclaresRegions ==
    IsPlainObject(Get(ResolvedEnv, "regions")) /\ KeySet(Get(ResolvedEnv, "regions")) # {}

\* the flag _regionAgnostic is exactly true in deepMerge(defaults[c], env[c])
RegionAgnostic(c) ==
    Get(deepMerge(<<Get(config.defaults, c), Get(ResolvedEnv, c)>>), "_regionAgnostic")
        = Bool(TRUE)

\* c is not dropped for needing a region
RegionSatisfied(c) == (EnvDeclaresRegions /\ args.region = "") => RegionAgnostic(c)

\* C4 as stated: without a component filter the components of a returned
\* nested result are exactly the discovered components whose three-level
\* merge holds no null at any depth and that do not need a missing region.
C4_Original ==
    (Returned /\ args.component = "" /\ args.output = "json") =>
        ComponentsIn(result.value) =
            {c \in Discovered : /\ NullKeyPaths(ThreeLevelMerge(c)) = {}
                                /\ RegionSatisfied(c)}

\* C4: without a component filter the components of a returned nested
\* result are exactly the discovered components c, other than those named
\* like one of the five injected fields, whose three-level merge holds no
\* null at any depth once the keys starting with '_' are stripped, and that
\* do not need a missing region (the environment declares a region, none
\* was supplied and _regionAgnostic is not exactly true in the merge of
\* defaults[c] and env[c]); the others are dropped without an error.
C4_Filtering ==
    (Returned /\ args.component = "" /\ args.output = "json") =>
        ComponentsIn(result.value) =
            {c \in Discovered \ InjectedNames :
                /\ NullKeyPaths(stripMetadataKeys(ThreeLevelMerge(c))) = {}
                /\ RegionSatisfied(c)}

\* a returned result that kept a region-agnostic component and silently
\* dropped another discovered component that needs the missing region
C4_Witness ==
    /\ Returned /\ args.component = "" /\ args.output = "json"
    /\ EnvDeclaresRegions /\ args.region = ""
    /\ \E c \in Discovered : RegionAgnostic(c) /\ c \in ComponentsIn(result.value)
    /\ \E c \in Discovered :
           /\ ~RegionAgnostic(c)
           /\ NullKeyPaths(ThreeLevelMerge(c)) = {}
           /\ c \notin ComponentsIn(result.value)

\* c passes the filter of the loop over the discovered components
Survives(c) ==
    /\ NullKeyPaths(stripMetadataKeys(ThreeLevelMerge(c))) = {}
    /\ RegionSatisfied(c)

\* global metadata: the direct children of the three levels that are not
\* mappings; the last level that has such a child decides its value
GlobalLevels == <<config.defaults, ResolvedEnv, ResolvedRegion>>
IsGlobalAt(i, k) == HasKey(GlobalLevels[i], k) /\ ~IsPlainObject(Get(GlobalLevels[i], k))
GlobalKeys ==
    {k \in UNION {KeySet(GlobalLevels[i]) : i \in 1..3} : \E i \in 1..3 : IsGlobalAt(i, k)}
GlobalValue(k) ==
    LET i == CHOOSE j \in 1..3 :
                 IsGlobalAt(j, k) /\ \A h \in (j + 1)..3 : ~IsGlobalAt(h, k)
    IN  Get(GlobalLevels[i], k)

\* out is the global metadata plus the five injected fields, nothing else
OnlyGlobalsAndInjected(out) ==
    /\ KeySet(out) = GlobalKeys \cup InjectedNames
    /\ \A k \in GlobalKeys \ InjectedNames : Get(out, k) = GlobalValue(k)

\* NoValidComponents is raised exactly when something was discovered and
\* nothing survived
NoValidComponentsRule ==
    Failed("NoValidComponents") <=> (Discovered # {} /\ \A c \in Discovered : ~Survives(c))

\* C5 as stated: without a component filter, once the environment and the
\* region are resolved, NoValidComponents is raised exactly when at least
\* one component is discovered and none survives; with zero discovered
\* components resolve returns the global metadata plus the injected fields.
C5_Original ==
    (TargetResolved /\ args.component = "") =>
        /\ NoValidComponentsRule
        /\ Discovered = {} => Returned /\ OnlyGlobalsAndInjected(result.value)

\* C5: without a component filter, once the environment and the region are
\* resolved, NoValidComponents is raised exactly when at least one component
\* is discovered and none survives; with zero discovered components resolve
\* never raises NoValidComponents: it fails with RequiredFieldMissing when a
\* global metadata key (other than the injected names) is null and otherwise
\* returns the global metadata plus the five injected fields.
C5_NoValidComponents ==
    (TargetResolved /\ args.component = "") =>
        /\ NoValidComponentsRule
        /\ Discovered = {} =>
               IF \E k \in GlobalKeys \ InjectedNames : GlobalValue(k) = Null
               THEN Failed("RequiredFieldMissing")
               ELSE Returned /\ OnlyGlobalsAndInjected(result.value)

\* NoValidComponents raised with two discovered components, one excluded
\* for a null and one for needing the region that was not supplied
C5_Witness ==
    /\ Failed("NoValidComponents") /\ args.component = ""
    /\ \E c \in Discovered :
           RegionSatisfied(c) /\ NullKeyPaths(stripMetadataKeys(ThreeLevelMerge(c))) # {}
    /\ \E c \in Discovered :
           ~RegionSatisfied(c) /\ NullKeyPaths(stripMetadataKeys(ThreeLevelMerge(c))) = {}

\* C6: once the environment and the region are resolved, a request for a
\* component that is not among the discovered components fails with
\* ComponentNotFound, whatever the region argument is, also when no region
\* is supplied and the environment declares regions.
C6_ComponentNotFound ==
    (TargetResolved /\ args.component # "" /\ args.component \notin Discovered) =>
        Failed("ComponentNotFound")

\* sub occurs in s
Contains(s, sub) ==
    \E i \in 1..(Len(s) - Len(sub) + 1) : SubSeq(s, i, i + Len(sub) - 1) = sub

\* C7: a request for a discovered component that is not region-agnostic,
\* made without a region against an environment that declares regions,
\* fails with RegionRequired and the message contains every declared region
\* name of that environment; a request for a region-agnostic component, or
\* against an environment without regions, never fails with RegionRequired.
C7_RegionRequired ==
    /\ (TargetResolved /\ args.component \in Discovered /\ EnvDeclaresRegions
          /\ args.region = "" /\ ~RegionAgnostic(args.component)) =>
           /\ Failed("RegionRequired")
           /\ \A r \in KeySet(Get(ResolvedEnv, "regions")) : Contains(result.msg, r)
    /\ (pc = "done" /\ args.component # ""
          /\ (RegionAgnostic(args.component) \/ ~EnvDeclaresRegions)) =>
           ~Failed("RegionRequired")

\* RegionRequired raised for a discovered component in an environment that
\* declares two regions
C7_Witness ==
    /\ Failed("RegionRequired")
    /\ args.component \in Discovered /\ args.region = ""
    /\ Cardinality(KeySet(Get(ResolvedEnv, "regions"))) >= 2
    /\ Contains(result.msg, "us-west-2") /\ Contains(result.msg, "us-east-1")

\* the hoisted component: the stripped three-level merge of the requested one
Hoisted == stripMetadataKeys(ThreeLevelMerge(args.component))

\* no discovered component is nested in out: a mapping found under a
\* component's name can only be a field of the hoisted component
NoNestedComponent(out) ==
    \A d \in Discovered : IsPlainObject(Get(out, d)) => d \in KeySet(Hoisted)

\* C8 as stated: in a returned nested result with component c requested,
\* every top-level field of c's stripped merge is at the root with its
\* merged value, no discovered component is nested, and every global
\* metadata key is at the root with its merged value.
C8_Original ==
    (Returned /\ args.component # "" /\ args.output = "json") =>
        /\ \A k \in KeySet(Hoisted) : Get(result.value, k) = Get(Hoisted, k)
        /\ NoNestedComponent(result.value)
        /\ \A k \in GlobalKeys :
               HasKey(result.value, k) /\ Get(result.value, k) = GlobalValue(k)

\* C8: in a returned nested result with component c requested, the root keys
\* are exactly the top-level fields of c's stripped merge, the global
\* metadata keys and the five injected names; every field of c not named
\* like an injected field holds its merged value, every global key named
\* neither like a field of c nor like an injected field holds its merged
\* global value, and no discovered component is nested.
C8_Hoisting ==
    (Returned /\ args.component # "" /\ args.output = "json") =>
        /\ KeySet(result.value) = KeySet(Hoisted) \cup GlobalKeys \cup InjectedNames
        /\ \A k \in KeySet(Hoisted) \ InjectedNames :
               Get(result.value, k) = Get(Hoisted, k)
        /\ \A k \in GlobalKeys \ (KeySet(Hoisted) \cup InjectedNames) :
               Get(result.value, k) = GlobalValue(k)
        /\ NoNestedComponent(result.value)

\* a returned hoisted result that carries a field of db decided at region
\* level next to a global key, with another component left out
C8_Witness ==
    /\ Returned /\ args.component = "db" /\ args.output = "json"
    /\ Get(Get(ResolvedRegion, "db"), "host") = Str("r")
    /\ Get(result.value, "host") = Str("r")
    /\ IsPlainObject(Get(result.value, "opts"))
    /\ "tag" \in GlobalKeys /\ Get(result.value, "tag") = GlobalValue("tag")
    /\ "region" \in Discovered
    /\ ~HasKey(result.value, "db")

\* the requested name is declared and is not the literal 'ephemeral'
DirectMatchApplies == args.env # "ephemeral" /\ HasKey(config, args.env)

\* ephemeral handling is enabled: the prefix has a character that is not blank
EphemeralEnabled ==
    \E i \in 1..Len(args.ephemeralBranchPrefix) :
        SubSeq(args.ephemeralBranchPrefix, i, i) # " "

\* the branch name with the prefix stripped
BranchEnvName ==
    SubSeq(args.branchName, Len(args.ephemeralBranchPrefix) + 1, Len(args.branchName))

\* the branch name is the literal prefix followed by one or more of [a-z0-9_-]
BranchMatchesPrefix ==
    /\ Len(args.branchName) > Len(args.ephemeralBranchPrefix)
    /\ SubSeq(args.branchName, 1, Len(args.ephemeralBranchPrefix)) = args.ephemeralBranchPrefix
    /\ \A i \in 1..Len(BranchEnvName) : SubSeq(BranchEnvName, i, i) \in NameChars

\* C9: whenever the requested name is not 'ephemeral' and is declared, the
\* resolver returns {envName: requested, envConfigName: requested,
\* isEphemeral: false}, for every prefix, branch name and disable flag.
C9_DirectMatch ==
    (pc = "done" /\ DirectMatchApplies) =>
        result = [ok |-> TRUE, envName |-> args.env, envConfigName |-> args.env,
                  isEphemeral |-> FALSE]

\* a direct match returned although the branch matches the ephemeral prefix
\* and names another environment, with 'ephemeral' declared as well
C9_Witness ==
    /\ pc = "done" /\ DirectMatchApplies
    /\ HasKey(config, "ephemeral")
    /\ EphemeralEnabled /\ ~args.disableEphemeralBranchCheck
    /\ BranchMatchesPrefix /\ BranchEnvName # args.env /\ args.branchName # args.env
    /\ result.ok /\ result.envName = args.env /\ ~result.isEphemeral

\* C10: with no direct match, ephemeral handling enabled, the branch check
\* not disabled and a branch name that matches the prefix pattern, the
\* resolver succeeds exactly when the requested name is 'ephemeral', the
\* branch name without the prefix, or the full branch name; it then returns
\* {envName: branch minus prefix, envConfigName: 'ephemeral', isEphemeral:
\* true}, and otherwise fails with EphemeralNameMismatch.
C10_BranchDerived ==
    (pc = "done" /\ ~DirectMatchApplies /\ EphemeralEnabled
       /\ ~args.disableEphemeralBranchCheck /\ BranchMatchesPrefix) =>
        IF args.env \in {"ephemeral", BranchEnvName, args.branchName}
        THEN result = [ok |-> TRUE, envName |-> BranchEnvName,
                       envConfigName |-> "ephemeral", isEphemeral |-> TRUE]
        ELSE ~result.ok /\ result.kind = "EphemeralNameMismatch"

\* a branch-derived success for a request that gave the full branch name
C10_Witness ==
    /\ pc = "done" /\ ~DirectMatchApplies /\ EphemeralEnabled
    /\ ~args.disableEphemeralBranchCheck /\ BranchMatchesPrefix
    /\ args.env = args.branchName
    /\ result.ok /\ result.envName = BranchEnvName /\ result.envName # args.env
    /\ result.envConfigName = "ephemeral" /\ result.isEphemeral

\* the call is on the branch path: no direct match, a prefix that is not
\* blank, the branch check not disabled and a branch name supplied
OnBranchPath ==
    /\ ~DirectMatchApplies /\ EphemeralEnabled
    /\ ~args.disableEphemeralBranchCheck /\ args.branchName # ""

\* C11: on the branch path, a branch name that is not the literal prefix
\* followed by one or more characters of [a-z0-9_-] makes the resolver fail
\* with InvalidEphemeralBranchFormat, with a message that holds the required
\* format '<prefix><name>' and the offending branch name; this also holds
\* for the request 'ephemeral', so no environment is derived from it.
C11_BranchFormat ==
    (pc = "done" /\ OnBranchPath /\ ~BranchMatchesPrefix) =>
        /\ ~result.ok
        /\ result.kind = "InvalidEphemeralBranchFormat"
        /\ Contains(result.msg, "'" \o args.ephemeralBranchPrefix \o "<name>'")
        /\ Contains(result.msg, "Current branch: " \o args.branchName)

\* the request 'ephemeral' rejected for a branch that matches the prefix
\* only if its '.' is read as a wildcard
C11_Witness ==
    /\ pc = "done" /\ OnBranchPath /\ ~BranchMatchesPrefix
    /\ args.env = "ephemeral" /\ HasKey(config, "ephemeral")
    /\ args.ephemeralBranchPrefix = "f." /\ args.branchName = "fax1"
    /\ ~result.ok /\ result.kind = "InvalidEphemeralBranchFormat"

\* the request names a declared environment other than 'ephemeral'
DirectRequest == args.env # "ephemeral" /\ HasKey(config.environments, args.env)

\* the environment resolver hands back the configuration name 'ephemeral':
\* the request is 'ephemeral' and no branch check rejects it, or it is an
\* undeclared name that is trusted or agrees with a well-formed branch
EphemeralRouteTaken ==
    /\ ~DirectRequest
    /\ IF args.env = "ephemeral"
       THEN \/ ~EphemeralEnabled
            \/ args.disableEphemeralBranchCheck
            \/ args.branchName = ""
            \/ BranchMatchesPrefix
       ELSE /\ EphemeralEnabled
            /\ \/ args.disableEphemeralBranchCheck
               \/ /\ args.branchName # "" /\ BranchMatchesPrefix
                  /\ args.env \in {BranchEnvName, args.branchName}

\* C12: resolve fails with EnvironmentNotFound (a) when the request is not
\* declared, is not 'ephemeral' and the prefix is absent or blank, whatever
\* the branch name and the disable flag; (b) when the prefix is not blank,
\* the check is not disabled, no branch name is given and the request is
\* neither declared nor 'ephemeral'; (c) when the resolver hands back the
\* configuration name 'ephemeral' and the document declares no environment
\* of that name.  Every returned result reports a declared environment as
\* its env_config_name.
C12_EnvironmentNotFound ==
    /\ (pc = "done" /\ ~DirectRequest /\ args.env # "ephemeral" /\ ~EphemeralEnabled) =>
           Failed("EnvironmentNotFound")
    /\ (pc = "done" /\ ~DirectRequest /\ args.env # "ephemeral" /\ EphemeralEnabled
          /\ ~args.disableEphemeralBranchCheck /\ args.branchName = "") =>
           Failed("EnvironmentNotFound")
    /\ (pc = "done" /\ EphemeralRouteTaken /\ ~HasKey(config.environments, "ephemeral")) =>
           Failed("EnvironmentNotFound")
    /\ Returned => HasKey(config.environments, Get(assembled, "env_config_name").v)

\* C13: with no direct match, a prefix that is not blank and the branch
\* check disabled, the resolver returns {envName: requested name,
\* envConfigName: 'ephemeral', isEphemeral: true} for every requested name
\* and every branch name (absent, matching, mismatching or malformed); it
\* never fails on this path.
C13_Trusted ==
    (pc = "done" /\ ~DirectMatchApplies /\ EphemeralEnabled
       /\ args.disableEphemeralBranchCheck) =>
        result = [ok |-> TRUE, envName |-> args.env, envConfigName |-> "ephemeral",
                  isEphemeral |-> TRUE]

\* a trusted request whose branch is malformed and names something else
C13_Witness ==
    /\ pc = "done" /\ ~DirectMatchApplies /\ EphemeralEnabled
    /\ args.disableEphemeralBranchCheck
    /\ args.branchName # "" /\ ~BranchMatchesPrefix
    /\ args.env = "other"
    /\ result.ok /\ result.envName = "other" /\ result.envConfigName = "ephemeral"

\* C14: for the request 'ephemeral' against a document that declares an
\* environment 'ephemeral', the direct match is never taken: every result
\* has isEphemeral true and envConfigName 'ephemeral', for every prefix
\* setting, and the only failure is the format error of a malformed branch
\* on the branch path; with no branch name the result is exactly
\* {envName: 'ephemeral', envConfigName: 'ephemeral', isEphemeral: true}.
C14_LiteralEphemeral ==
    (pc = "done" /\ args.env = "ephemeral" /\ HasKey(config, "ephemeral")) =>
        /\ result.ok => result.isEphemeral /\ result.envConfigName = "ephemeral"
        /\ ~result.ok => /\ result.kind = "InvalidEphemeralBranchFormat"
                         /\ OnBranchPath /\ ~BranchMatchesPrefix
        /\ args.branchName = "" =>
               result = [ok |-> TRUE, envName |-> "ephemeral",
                         envConfigName |-> "ephemeral", isEphemeral |-> TRUE]

\* the bare request 'ephemeral' with ephemeral handling disabled
C14_Witness ==
    /\ pc = "done" /\ args.env = "ephemeral" /\ HasKey(config, "ephemeral")
    /\ ~EphemeralEnabled /\ args.branchName = ""
    /\ result.ok /\ result.isEphemeral /\ result.envName = "ephemeral"

\* C15: for every known region, resolve gives the same outcome for the
\* short code and for the full name, and a returned result carries the full
\* name as 'region' and the short code as 'region_short'; for a declared
\* environment a non-empty region that is neither a known short code nor a
\* known full name makes resolve fail with InvalidRegion, whatever the
\* document declares; with no region both fields are the empty string.
C15_RegionNormalization ==
    pc = "done" =>
        /\ \A i \in RegionIdx :
               LET short == AwsRegionMapping[i][1]
                   full == AwsRegionMapping[i][2]
               IN  args.region \in {short, full} =>
                       /\ result = mergeConfig(config, [args EXCEPT !.region = short])
                       /\ result = mergeConfig(config, [args EXCEPT !.region = full])
                       /\ result.ok =>
                              /\ Get(result.value, "region") = Str(full)
                              /\ Get(result.value, "region_short") = Str(short)
        /\ (DirectRequest /\ args.region # ""
              /\ args.region \notin ShortCodes \cup FullNames) =>
               Failed("InvalidRegion")
        /\ (result.ok /\ args.region = "") =>
               /\ Get(result.value, "region") = Str("")
               /\ Get(result.value, "region_short") = Str("")

\* the full name of a known region given by short code or by full name
KnownFullName(r) ==
    AwsRegionMapping[CHOOSE i \in RegionIdx : r \in {AwsRegionMapping[i][1],
                                                      AwsRegionMapping[i][2]}][2]

\* t ends in '-' followed by a known short code or full name
HasRegionSuffix(t) ==
    \E r \in ShortCodes \cup FullNames :
        Len(t) >= Len(r) + 1 /\ SubSeq(t, Len(t) - Len(r), Len(t)) = "-" \o r

\* C16: for a non-empty environment name e (hyphens allowed) and a known
\* region r given as short code or full name, parseTarget(e-r) returns
\* {env: e, region: full name of r}, so e is never split at its own
\* hyphens; for a string that does not end in '-' followed by a known short
\* code or full name it returns {env: the whole string, region: unset}.
C16_ParseTarget ==
    pc = "done" =>
        /\ (args.env # "" /\ args.sep = "-" /\ args.region \in ShortCodes \cup FullNames) =>
               result = [env |-> args.env, region |-> Str(KnownFullName(args.region))]
        /\ ~HasRegionSuffix(TargetOf(args)) =>
               result = [env |-> TargetOf(args), region |-> Undef]

\* a hyphenated environment name followed by a short code
C16_Witness ==
    /\ pc = "done"
    /\ args = [env |-> "my-env-name", sep |-> "-", region |-> "usw2"]
    /\ result = [env |-> "my-env-name", region |-> Str("us-west-2")]

RECURSIVE UnderscorePaths(_)
\* the key paths (through mappings) that end in a key beginning with '_'
UnderscorePaths(obj) ==
    UNION { LET k == ObjectEntries(obj)[i][1]
                v == ObjectEntries(obj)[i][2]
            IN  (IF Len(k) >= 1 /\ SubSeq(k, 1, 1) = "_" THEN {<<k>>} ELSE {})
                \cup (IF IsPlainObject(v) THEN {<<k>> \o p : p \in UnderscorePaths(v)}
                      ELSE {})
            : i \in 1..Len(ObjectEntries(obj)) }

\* C17 as stated: in every returned result, nested or flattened, with or
\* without a component filter, no key at any depth begins with '_', and
\* '_regionAgnostic' occurs in no key of the output.
C17_Original ==
    Returned =>
        /\ UnderscorePaths(assembled) = {}
        /\ \A k \in KeySet(result.value) : ~Contains(k, "_regionAgnostic")

\* C17: in every returned result, nested or flattened, with or without a
\* component filter, no key inside a component's merged configuration
\* begins with '_' at any mapping depth; the only keys of the output that
\* begin with '_' or hold '_regionAgnostic' are global metadata keys of
\* that name at the root, which are passed through.
C17_NoFlagLeak ==
    Returned =>
        /\ UnderscorePaths(assembled) \subseteq {<<k>> : k \in GlobalKeys}
        /\ \A k \in KeySet(result.value) : Contains(k, "_regionAgnostic") => k \in GlobalKeys

\* a component kept without a region because of its flag, returned without
\* the flag and without a nested metadata key of its merge
C17_Witness ==
    /\ Returned /\ args.component = "" /\ args.output = "json"
    /\ EnvDeclaresRegions /\ args.region = ""
    /\ Get(ThreeLevelMerge("db"), "_regionAgnostic") = Bool(TRUE)
    /\ IsPlainObject(Get(result.value, "db"))
    /\ UnderscorePaths(Get(result.value, "db")) = {}
    /\ UnderscorePaths(ThreeLevelMerge("db")) # {}

\* the levels a validity check of (env, region) draws on, lowest first
ScanLevels(env, region) ==
    LET envConfig == Coalesce(Get(config.environments, env), EmptyMap)
    IN  <<Coalesce(config.defaults, EmptyMap), envConfig>>
        \o (IF region # ""
            THEN <<Coalesce(OptGet(Get(envConfig, "regions"), region), EmptyMap)>>
            ELSE <<>>)

\* the component is declared, with whatever value, at one of the levels
DefinedIn(levels, c) == \E i \in 1..Len(levels) : HasKey(levels[i], c)

\* the merge of what the levels hold for the component
MergedOver(levels, c) ==
    deepMerge([i \in 1..Len(levels) |-> Coalesce(Get(levels[i], c), EmptyMap)])

RECURSIVE FirstNullKeys(_)
\* the key path of the first null met depth first in key-insertion order
FirstNullKeys(entries) ==
    IF entries = <<>> THEN [found |-> FALSE, keys |-> <<>>]
    ELSE LET k == Head(entries)[1]
             v == Head(entries)[2]
             inner == IF IsPlainObject(v) THEN FirstNullKeys(ObjectEntries(v))
                      ELSE [found |-> FALSE, keys |-> <<>>]
         IN  IF v.t = "null" THEN [found |-> TRUE, keys |-> <<k>>]
             ELSE IF inner.found THEN [found |-> TRUE, keys |-> <<k>> \o inner.keys]
             ELSE FirstNullKeys(Tail(entries))

ValidityChecked == pc = "done" /\ args.op = "validity"

\* C18: for every document, component name, environment and optional
\* region the validity check returns valid exactly when the component is
\* defined at one of the contributing levels and the merge of those levels
\* holds no null at any depth; an invalid result gives the reason
\* component_not_found when no contributing level defines the component and
\* otherwise null_value_at_ followed by the dot-joined key path of the first
\* null met depth first in key-insertion order, whatever the key names are,
\* the empty string included.
C18_ValidityReasons ==
    ValidityChecked =>
        LET levels == ScanLevels(args.env, args.region)
            defined == DefinedIn(levels, args.component)
            first == FirstNullKeys(ObjectEntries(MergedOver(levels, args.component)))
        IN  /\ result.valid <=> (defined /\ ~first.found)
            /\ ~result.valid =>
                   result.reason = IF ~defined THEN "component_not_found"
                                   ELSE "null_value_at_" \o JoinWith(first.keys, ".")

ComponentScanned == pc = "done" /\ args.op = "component"
AllScanned == pc = "done" /\ args.op = "all"

\* the declared environment names, in declaration order
DeclaredEnvironments ==
    IF Truthy(config.environments) THEN ObjectKeys(config.environments) ELSE <<>>

\* the environment names of a report, in report order
ReportedEnvironments(report) ==
    [i \in 1..Len(report.environments) |-> report.environments[i].environment]

\* some reported region check of the availability entry is valid
SomeRegionValid(e) ==
    e.regions # Undef /\ \E i \in 1..Len(e.regions.v) : e.regions.v[i].valid

\* available iff the env-level check or a reported region check is valid
AvailableRule(e) == e.available <=> (e.envLevel.valid \/ SomeRegionValid(e))

\* the entries of both reports follow the aggregation rules
AggregationRules ==
    /\ ComponentScanned =>
           \A i \in 1..Len(result.environments) : AvailableRule(result.environments[i])
    /\ AllScanned =>
           \A i \in 1..Len(result.environments) :
              LET e == result.environments[i]
              IN  /\ \A j \in 1..Len(e.components) : AvailableRule(e.components[j])
                  /\ e.valid <=> \E j \in 1..Len(e.components) : e.components[j].available

\* C19 as stated: in every entry of checkAvailability(doc, component),
\* available is true iff the env-level check is valid or a reported region
\* check is valid; in the all-components scan an environment is valid iff
\* one of its components is available; each report has exactly one entry
\* per declared environment, in declaration order.
C19_Original ==
    /\ AggregationRules
    /\ (ComponentScanned \/ AllScanned) =>
           ReportedEnvironments(result) = DeclaredEnvironments

\* C19 (amended): the same, except that the all-components scan of a
\* document in which no component name is discovered reports no
\* environment at all.
C19_Aggregation ==
    /\ AggregationRules
    /\ ComponentScanned => ReportedEnvironments(result) = DeclaredEnvironments
    /\ AllScanned =>
           ReportedEnvironments(result) =
               IF Len(getAllComponentNames(config)) = 0 THEN <<>> ELSE DeclaredEnvironments

\* a single-component report of two environments in which dev is invalid at
\* env level and available through a region
C19_Witness ==
    /\ ComponentScanned
    /\ Len(result.environments) = 2
    /\ LET e == result.environments[1]
       IN  e.environment = "dev" /\ ~e.envLevel.valid /\ SomeRegionValid(e) /\ e.available

\* deepMerge(defaults[c], env[c])._regionAgnostic is exactly true
FlagMerged(env, c) ==
    LET levels == ScanLevels(env, "")
    IN  Get(MergedOver(levels, c), "_regionAgnostic") = Bool(TRUE)

\* the regions the environment declares, in declaration order
DeclaredRegions(env) == RegionNamesOf(Get(config.environments, env))

\* the region names of the region checks an availability entry reports
CheckedRegions(e) ==
    IF e.regions = Undef THEN <<>>
    ELSE [i \in 1..Len(e.regions.v) |-> e.regions.v[i].region]

\* the availability entry e of component c in environment env follows the
\* region-agnostic rule
RegionAgnosticRule(env, c, e) ==
    IF FlagMerged(env, c)
    THEN e.regions = Undef /\ (e.available <=> e.envLevel.valid)
    ELSE CheckedRegions(e) = DeclaredRegions(env)

\* C20: for every environment and component, if
\* deepMerge(defaults[c], env[c])._regionAgnostic is exactly true the
\* availability entry reports no region checks and available equals the
\* env-level validity alone; otherwise (so also when the flag is set only
\* at region level, or when an env-level false overrides a defaults-level
\* true) every declared region is checked.
C20_RegionAgnostic ==
    /\ ComponentScanned =>
           \A i \in 1..Len(result.environments) :
              RegionAgnosticRule(result.environments[i].environment, args.component,
                                 result.environments[i])
    /\ AllScanned =>
           \A i \in 1..Len(result.environments) :
              LET e == result.environments[i]
              IN  \A j \in 1..Len(e.components) :
                     RegionAgnosticRule(e.environment, e.components[j].component,
                                        e.components[j])

\* a region-agnostic db that is invalid at env level and reported
\* unavailable without region checks although the first region of dev
\* would complete it
C20_Witness ==
    /\ ComponentScanned /\ args.component = "db"
    /\ FlagMerged("dev", "db")
    /\ LET e == result.environments[1]
       IN  /\ e.environment = "dev" /\ ~e.envLevel.valid /\ ~e.available
           /\ e.regions = Undef
    /\ DeclaredRegions("dev") # <<>>
    /\ ~FirstNullKeys(ObjectEntries(
            MergedOver(ScanLevels("dev", DeclaredRegions("dev")[1]), "db"))).found

\* the keys of obj whose value is a mapping
MappingKeySet(obj) == {k \in KeySet(obj) : IsPlainObject(Get(obj, k))}

\* the keys whose value is a mapping as a direct child of defaults, of an
\* environment (but for regions) or of a region
MappingChildren ==
    LET envs == Coalesce(config.environments, EmptyMap)
        regionsOf(env) == Coalesce(OptGet(Get(envs, env), "regions"), EmptyMap)
    IN  MappingKeySet(Coalesce(config.defaults, EmptyMap))
        \cup UNION {MappingKeySet(Get(envs, env)) \ {"regions"} : env \in KeySet(envs)}
        \cup UNION {UNION {MappingKeySet(Get(regionsOf(env), r)) : r \in KeySet(regionsOf(env))}
                    : env \in KeySet(envs)}

\* the component names an all-components report examines
ExaminedNames(report) ==
    UNION {{e.components[j].component : j \in 1..Len(e.components)}
           : e \in {report.environments[i] : i \in 1..Len(report.environments)}}

\* C21: the component names examined by the all-components scan are
\* exactly the keys whose value is a mapping as a direct child of defaults,
\* of some environment (excluding regions) or of some region: no scalar or
\* array child is examined, and every mapping-typed environment-level key
\* is, whatever its name.
C21_ScanUniverse ==
    (AllScanned /\ result.environments # <<>>) => ExaminedNames(result) = MappingChildren

\* the component's partial configuration at the level is a mapping with at
\* least one key
NonEmptyMappingAt(level, c) ==
    IsPlainObject(Get(level, c)) /\ Len(ObjectKeys(Get(level, c))) > 0

\* the level of environment env itself, or of its region
ExactLevel(env, region) ==
    LET levels == ScanLevels(env, region) IN levels[Len(levels)]

\* hasConfig of every valid entry of an availability entry e of component c
\* in environment env tells whether the exact level holds a non-empty mapping
HasConfigRule(env, c, e) ==
    /\ e.envLevel.valid =>
           (e.envLevel.hasConfig <=> NonEmptyMappingAt(ExactLevel(env, ""), c))
    /\ e.regions # Undef =>
           \A i \in 1..Len(e.regions.v) :
              LET r == e.regions.v[i]
              IN  r.valid => (r.hasConfig <=> NonEmptyMappingAt(ExactLevel(env, r.region), c))

\* C22: for every valid env-level or region-level scanner entry, hasConfig
\* is true if and only if the component's partial configuration at that
\* exact level (the environment itself, or that region) is a mapping with
\* at least one key, whatever defaults and the other levels hold.
C22_HasConfig ==
    /\ (ValidityChecked /\ result.valid) =>
           (result.hasConfig <=>
               NonEmptyMappingAt(ExactLevel(args.env, args.region), args.component))
    /\ ComponentScanned =>
           \A i \in 1..Len(result.environments) :
              HasConfigRule(result.environments[i].environment, args.component,
                            result.environments[i])

\* the memory as it was when the document had just been placed
PlacedMemory == PlaceDocument(args.document).heap

\* the objects of the document are what they were when it was placed
DocumentUntouched ==
    /\ DocumentValue(config.heap, config) = args.document
    /\ \A a \in 1..Len(PlacedMemory) : config.heap[a] = PlacedMemory[a]

\* the last call returned what the same call returns on the document alone
ReturnsAsAlone ==
    CASE args.op = "resolve" ->
           LET alone == mergeConfig(args.document, args.request)
           IN  IF alone.ok
               THEN result.ok /\ ValueAt(config.heap, result.value) = alone.value
               ELSE result = alone
      [] args.op = "scan" ->
           result = checkComponentValidity(args.document, args.request.env,
                                           args.request.region, args.request.component)
      [] args.op = "merge" ->
           ValueAt(config.heap, result.value) =
               deepMerge(<<Get(args.document.defaults, "db"),
                           Get(Get(args.document.environments, "dev"), "db")>>)
      [] args.op = "parse" -> result = parseTarget(args.request.v)
      [] OTHER -> TRUE

\* a step writes to no object that existed before it
OnlyNewObjects ==
    \A a \in 1..Len(config.heap) : config.heap'[a] = config.heap[a]

\* C23: no resolve, scan, merge or parseTarget call changes any object of
\* the configuration document, nor any object an earlier call returned
\* (every step writes to objects it created itself only), so after any
\* sequence of such calls on one document each call has returned exactly
\* what it returns when run alone.
C23_NoMutation ==
    /\ [](DocumentUntouched /\ ReturnsAsAlone)
    /\ [][OnlyNewObjects]_vars

\* a second call has returned after a first one, and its result holds a
\* reference to an array of the document itself
C23_Witness ==
    /\ args.calls = 2 /\ args.op = "resolve" /\ result.ok
    /\ \E i \in 1..Len(EntriesAt(config.heap, result.value)) :
          LET v == EntriesAt(config.heap, result.value)[i][2]
          IN  IsRef(v) /\ v.a <= Len(PlacedMemory)

\* the last two calls were resolve calls with identical inputs
SameResolveTwice ==
    args.op = "resolve" /\ args.before.op = "resolve" /\ args.before.request = args.request

\* C24: two resolve calls with identical inputs on one document produce
\* the same serialized output, key order included, or fail with the same
\* error.
C24_Idempotence ==
    SameResolveTwice => Serialized(config.heap, result) = args.before.output

\* the same successful flattened resolve of a component, twice in a row
C24_Witness ==
    /\ SameResolveTwice /\ result.ok
    /\ args.request.component = "db" /\ args.request.output = "flatten"
    /\ HasKey(ValueAt(config.heap, result.value), "opts.x")

RECURSIVE Interrupted(_, _, _)
\* at some key path a and c hold a mapping and b holds something else
Interrupted(a, b, c) ==
    \E k \in KeySet(a) \cap KeySet(b) \cap KeySet(c) :
        /\ IsPlainObject(Get(a, k)) /\ IsPlainObject(Get(c, k))
        /\ IsPlainObject(Get(b, k)) => Interrupted(Get(a, k), Get(b, k), Get(c, k))

MergedThree == pc = "done" /\ Len(args) = 3
LeftGrouped == deepMerge(<<deepMerge(<<args[1], args[2]>>), args[3]>>)
RightGrouped == deepMerge(<<args[1], deepMerge(<<args[2], args[3]>>)>>)

\* C25 as stated: for all mappings a, b and c, merge(a, b, c) equals
\* merge(merge(a, b), c) and also equals merge(a, merge(b, c)).
C25_Original == MergedThree => result = LeftGrouped /\ result = RightGrouped

\* C25 (amended): merge(a, b, c) equals merge(merge(a, b), c) for all
\* mappings; it equals merge(a, merge(b, c)) whenever there is no key path
\* at which a and c hold a mapping and b holds a value that is not a
\* mapping.
C25_Associativity ==
    MergedThree =>
        /\ result = LeftGrouped
        /\ ~Interrupted(args[1], args[2], args[3]) => result = RightGrouped

\* a three-way merge in which all three arguments contribute to the same
\* nested mapping
C25_Witness ==
    /\ MergedThree
    /\ \A i \in 1..3 : IsPlainObject(Get(args[i], "a"))
    /\ Get(Get(args[1], "a"), "a") = Str("w") /\ Get(Get(args[2], "a"), "a") = Null
    /\ Get(Get(args[3], "a"), "b") = Str("v") /\ ~HasKey(Get(args[3], "a"), "a")
    /\ result = Map(<< <<"a", Map(<< <<"a", Null>>, <<"b", Str("v")>> >>)>> >>)

\* no two short codes map to the same full name, and no code is listed twice
TableIsBijection ==
    \A i, j \in RegionIdx :
        (AwsRegionMapping[i][1] = AwsRegionMapping[j][1]
         \/ AwsRegionMapping[i][2] = AwsRegionMapping[j][2]) => i = j

\* the round trips of the known codes and names
RoundTrips ==
    /\ (pc = "done" /\ args.op = "full" /\ args.text \in ShortCodes) =>
           result.once.v \in FullNames /\ result.back = Str(args.text)
    /\ (pc = "done" /\ args.op = "short" /\ args.text \in FullNames) =>
           result.once.v \in ShortCodes /\ result.back = Str(args.text)

\* C26: toShortCode(toFullName(c)) = c for every known short code c,
\* toFullName(toShortCode(n)) = n for every known full name n, the table
\* is a bijection, and for every string that is neither a known code nor a
\* known name both functions return the input unchanged.
C26_RegionCodec ==
    /\ TableIsBijection
    /\ RoundTrips
    /\ (pc = "done" /\ args.text \notin ShortCodes \cup FullNames) =>
           result.once = Str(args.text)

RECURSIVE LeavesOf(_, _)
\* the non-mapping leaves under the entries, depth first in entry order, each
\* with its key path
LeavesOf(entries, path) ==
    IF entries = <<>> THEN <<>>
    ELSE LET k == Head(entries)[1]
             v == Head(entries)[2]
         IN  (IF IsPlainObject(v) THEN LeavesOf(ObjectEntries(v), Append(path, k))
              ELSE << <<Append(path, k), v>> >>)
             \o LeavesOf(Tail(entries), path)

\* the delimiter a flattened output was asked with
DelimiterUsed == Coalesce(args.delimiter, Str(".")).v

\* a flattened output was returned for the nested result in assembled
Flattened == Returned /\ args.output = "flatten" /\ assembled # Undef

\* C27: the flattened output has exactly one entry per non-mapping leaf of
\* the nested result (scalars and whole arrays), keyed by the leaf's key
\* path joined with the delimiter and holding the leaf's value, in
\* depth-first encounter order, and nothing else; none of its values is a
\* mapping.
C27_Flattening ==
    Flattened =>
        LET leaves == LeavesOf(ObjectEntries(assembled), <<>>)
        IN  /\ result.value.v =
                   [i \in 1..Len(leaves) |->
                       <<JoinWith(leaves[i][1], DelimiterUsed), leaves[i][2]>>]
            /\ \A i \in 1..Len(result.value.v) : ~IsPlainObject(result.value.v[i][2])

\* the environment resolver's answer for the request
ResolvedNames ==
    determineEnvironment(config.environments, args.env, args.ephemeralBranchPrefix,
                         args.disableEphemeralBranchCheck, args.branchName)

\* the five metadata values the request stands for
MetadataOf(name) ==
    CASE name = "env_name" -> Str(ResolvedNames.envName)
      [] name = "env_config_name" -> Str(ResolvedNames.envConfigName)
      [] name = "region" -> FullRegionValue(args.region)
      [] name = "region_short" -> Str(ShortRegionOf(args.region))
      [] name = "is_ephemeral" -> Bool(ResolvedNames.isEphemeral)

\* C28: in every successful resolve the root fields env_name,
\* env_config_name, region, region_short and is_ephemeral of the output are
\* the environment resolver's envName and envConfigName, the full region and
\* short code of the supplied region (empty strings without a region) and
\* the isEphemeral flag, whatever the document defines under those names
C28_Authoritative ==
    Returned => \A name \in InjectedNames : Get(result.value, name) = MetadataOf(name)

\* the request names a region the codec knows and the resolved environment
\* does not declare
RegionUndeclared ==
    /\ pc = "done"
    /\ result.ok \/ result.kind \notin {"EnvironmentNotFound", "EphemeralNameMismatch",
                                        "InvalidEphemeralBranchFormat"}
    /\ args.region # "" /\ ~IsInvalidRegion(args.region)
    /\ ~HasKey(Get(ResolvedEnv, "regions"), FullRegionOf(args.region))

\* the document with the 'regions' mapping of every environment removed
WithoutRegions(cfg) ==
    [defaults |-> cfg.defaults,
     environments |->
         Map([i \in 1..Len(ObjectEntries(cfg.environments)) |->
                 LET e == ObjectEntries(cfg.environments)[i]
                 IN  <<e[1], Map(SelectSeq(ObjectEntries(e[2]),
                                           LAMBDA f : f[1] # "regions"))>>])]

\* deepMerge(defaults[c], env[c]) stripped of the keys that start with '_'
TwoLevelMerge(c) ==
    stripMetadataKeys(deepMerge(<<Get(config.defaults, c), Get(ResolvedEnv, c)>>))

\* the global value of k decided by the environment, else by the defaults
TwoLevelGlobal(k) ==
    IF IsGlobalAt(2, k) THEN Get(ResolvedEnv, k) ELSE Get(config.defaults, k)

\* C29: when the supplied region is known to the codec and is not a key of
\* the resolved environment's 'regions' mapping, resolve behaves as if the
\* environment declared no regions: it fails only where the same request on
\* the document without 'regions' fails, never with InvalidRegion or
\* RegionRequired; in a returned nested result every component (every
\* hoisted field, with a component filter) is the defaults -> environment
\* merge and every global key the environment-over-defaults value; and the
\* fields region and region_short are the supplied region's full name and
\* short code.
C29_RegionFallback ==
    RegionUndeclared =>
        /\ ~Failed("InvalidRegion") /\ ~Failed("RegionRequired")
        /\ result = mergeConfig(WithoutRegions(config), args)
        /\ (Returned /\ args.output = "json") =>
               /\ args.component = "" =>
                      \A c \in ComponentsIn(result.value) \ InjectedNames :
                          Get(result.value, c) = TwoLevelMerge(c)
               /\ args.component # "" =>
                      \A k \in KeySet(TwoLevelMerge(args.component)) \ InjectedNames :
                          Get(result.value, k) = Get(TwoLevelMerge(args.component), k)
               /\ \A k \in GlobalKeys \ InjectedNames :
                      ~IsPlainObject(Get(result.value, k))
                      /\ (args.component # "" => k \notin KeySet(TwoLevelMerge(args.component)))
                      => Get(result.value, k) = TwoLevelGlobal(k)
        /\ Returned =>
               /\ Get(result.value, "region") = FullRegionValue(args.region)
               /\ Get(result.value, "region_short") = Str(ShortRegionOf(args.region))

\* a request for us-east-1 on an environment that declares only us-west-2,
\* where the declared region would have decided db.host: the output keeps
\* the environment's value and carries the supplied region
C29_Witness ==
    /\ Returned /\ args.region = "us-east-1" /\ args.output = "json"
    /\ args.component = ""
    /\ HasKey(Get(ResolvedEnv, "regions"), "us-west-2")
    /\ ~HasKey(Get(ResolvedEnv, "regions"), "us-east-1")
    /\ Get(Get(Get(Get(ResolvedEnv, "regions"), "us-west-2"), "db"), "host") = Str("r")
    /\ Get(Get(result.value, "db"), "host") = Str("e")
    /\ Get(result.value, "region") = Str("us-east-1")
    /\ Get(result.value, "region_short") = Str("use1")

\* a listed target was resolved
TargetFollowed == pc = "done"

\* the target splits into the environment and region of its entry
SplitsBack == args.parsed.env = args.environment /\ args.parsed.region = args.region

\* C30: every target that checkComponentAvailability attaches to a valid
\* env-level or region-level entry of component c, split by parseTarget and
\* resolved for c with the ephemeral check disabled, gives back the
\* environment (and region) of the entry and resolves successfully.
C30_TargetsAgree == TargetFollowed => SplitsBack /\ result.ok

====
